---- MODULE Spec2Model ----
(***************************************************************************)
(* Model of the document extraction pipeline of ai-underwriting:           *)
(* the extractor framework (backend/services/extractors), the dispatcher   *)
(* (backend/services/ocr.py DocumentProcessor) and their helpers.          *)
(*                                                                         *)
(* Texts are sequences of one-character strings; a Python str literal      *)
(* "abc" is written Chars("abc").  Decimal numbers (Python floats parsed   *)
(* from text) are integers counted in hundredths, see ParseFloat.          *)
(* Quotients (rates, ratios) are kept exact as records [num, den].         *)
(***************************************************************************)
EXTENDS Integers, Sequences, FiniteSets, TLC

(***************************************************************************)
(* Python str primitives                                                   *)
(***************************************************************************)
Chars(s) == [i \in 1..Len(s) |-> SubSeq(s, i, i)]

UpperChars == Chars("ABCDEFGHIJKLMNOPQRSTUVWXYZ")
LowerChars == Chars("abcdefghijklmnopqrstuvwxyz")
DigitChars == Chars("0123456789")

Upper == {UpperChars[i] : i \in 1..Len(UpperChars)}
Letter == {LowerChars[i] : i \in 1..Len(LowerChars)}
Digit == {DigitChars[i] : i \in 1..Len(DigitChars)}
\* str.isspace() characters that can occur in the modelled texts
WS == {" ", "\t", "\n", "\r", "\f"}

LowerMap == [c \in Upper |-> LowerChars[CHOOSE i \in 1..Len(UpperChars) : UpperChars[i] = c]]

\* str.lower()
LowerChar(c) == IF c \in Upper THEN LowerMap[c] ELSE c
Lower(s) == [i \in 1..Len(s) |-> LowerChar(s[i])]

MinOf(S) == CHOOSE x \in S : \A y \in S : x <= y
MaxOf(S) == CHOOSE x \in S : \A y \in S : x >= y

\* s[a:b] with 0-based Python bounds 0 <= a, b already clipped by the caller
Slice(s, a, b) == SubSeq(s, a + 1, IF b < Len(s) THEN b ELSE Len(s))

StartsWith(s, i, p) ==
    /\ i + Len(p) - 1 <= Len(s)
    /\ \A k \in 1..Len(p) : s[i + k - 1] = p[k]

\* str.find(p): 0-based index of the first occurrence, -1 when absent
Find(s, p) ==
    LET hits == {i \in 1..(Len(s) - Len(p) + 1) : StartsWith(s, i, p)}
    IN  IF hits = {} THEN -1 ELSE MinOf(hits) - 1

\* p in s
Contains(s, p) == \E i \in 1..(Len(s) - Len(p) + 1) : StartsWith(s, i, p)

\* str.strip()
Strip(s) ==
    LET ink == {i \in 1..Len(s) : s[i] \notin WS}
    IN  IF ink = {} THEN <<>> ELSE SubSeq(s, MinOf(ink), MaxOf(ink))

\* str.split(sep) for a one-character separator
Split(s, sep) ==
    LET cuts == {i \in 1..Len(s) : s[i] = sep}
        n == Cardinality(cuts)
        \* position of the k-th separator; 0 before the first, Len+1 after the last
        cut(k) == IF k = 0 THEN 0
                  ELSE IF k = n + 1 THEN Len(s) + 1
                  ELSE CHOOSE i \in cuts : Cardinality({j \in cuts : j < i}) = k - 1
    IN  [k \in 1..(n + 1) |-> SubSeq(s, cut(k - 1) + 1, cut(k) - 1)]

\* "\n".join(lines)
RECURSIVE JoinLines(_)
JoinLines(lines) ==
    IF lines = <<>> THEN <<>>
    ELSE IF Len(lines) = 1 THEN lines[1]
    ELSE lines[1] \o <<"\n">> \o JoinLines(Tail(lines))

(***************************************************************************)
(* Python re: a backtracking matcher over the constructs the source uses.  *)
(* A pattern is a record tree:                                             *)
(*   Lit(p)            the characters of p                                 *)
(*   Rep(c, lo, hi)    lo..hi characters of class c, greedy (hi = -1: no   *)
(*                     upper limit); Lazy(c, lo, hi) the non-greedy form   *)
(*   Cat(<<r1,..>>)    concatenation        Alt(<<r1,..>>)  r1|r2|..       *)
(*   Opt(r)            (?:r)?               Grp(n, r)       capture n      *)
(*   Many(r)           (?:r)*               Eos             $              *)
(*   Wb                \b                                                  *)
(* A class is [neg |-> BOOLEAN, set |-> set of characters].                *)
(* With re.IGNORECASE the caller matches the lower-cased subject against   *)
(* a lower-case pattern; groups are positions, read back from the text.    *)
(***************************************************************************)
Cls(S) == [neg |-> FALSE, set |-> S]
NotCls(S) == [neg |-> TRUE, set |-> S]
InCls(ch, c) == IF c.neg THEN ch \notin c.set ELSE ch \in c.set

WordCls == Cls(Letter \cup Upper \cup Digit \cup {"_"})
SpaceCls == Cls(WS)
DigitCls == Cls(Digit)

Lit(p) == [t |-> "lit", s |-> Chars(p)]
Rep(c, lo, hi) == [t |-> "cls", c |-> c, lo |-> lo, hi |-> hi, greedy |-> TRUE]
Lazy(c, lo, hi) == [t |-> "cls", c |-> c, lo |-> lo, hi |-> hi, greedy |-> FALSE]
Cat(rs) == [t |-> "seq", rs |-> rs]
Alt(rs) == [t |-> "alt", rs |-> rs]
Opt(r) == [t |-> "opt", r |-> r]
Many(r) == [t |-> "many", r |-> r]
Grp(n, r) == [t |-> "grp", n |-> n, r |-> r]
Eos == [t |-> "eos"]
Wb == [t |-> "wb"]
\* the shorthands \s* \s+ \d+ ...
Star(c) == Rep(c, 0, -1)
Plus(c) == Rep(c, 1, -1)
One(c) == Rep(c, 1, 1)

NoMatch == [ok |-> FALSE, end |-> 0, caps |-> <<>>]

\* number of consecutive characters of class c from position i, at most hi
\* (hi = -1: no limit)
RunLen(s, i, c, hi) ==
    LET last == IF hi < 0 \/ i + hi - 1 > Len(s) THEN Len(s) ELSE i + hi - 1
        stops == {j \in i..last : ~InCls(s[j], c)}
    IN  IF stops = {} THEN last - i + 1 ELSE MinOf(stops) - i

IsWordAt(s, i) == i >= 1 /\ i <= Len(s) /\ InCls(s[i], WordCls)

\* MatchK(stack, s, i, caps): match the patterns of stack one after the other
\* from position i; the first match in Python's backtracking order, or NoMatch.
RECURSIVE MatchK(_, _, _, _), TryDown(_, _, _, _, _, _), TryUp(_, _, _, _, _, _), TryAlt(_, _, _, _, _, _, _)
MatchK(stack, s, i, caps) ==
    IF stack = <<>> THEN [ok |-> TRUE, end |-> i, caps |-> caps]
    ELSE LET r == Head(stack)
             rest == Tail(stack)
         IN  CASE r.t = "lit" ->
                    IF StartsWith(s, i, r.s) THEN MatchK(rest, s, i + Len(r.s), caps)
                    ELSE NoMatch
               [] r.t = "cls" ->
                    LET run == RunLen(s, i, r.c, r.hi)
                    IN  IF run < r.lo THEN NoMatch
                        ELSE IF r.greedy THEN TryDown(rest, s, i, caps, r.lo, run)
                        ELSE TryUp(rest, s, i, caps, r.lo, run)
               [] r.t = "seq" -> MatchK(r.rs \o rest, s, i, caps)
               [] r.t = "alt" -> TryAlt(r.rs, rest, s, i, caps, 1, Len(r.rs))
               [] r.t = "opt" ->
                    LET with == MatchK(<<r.r>> \o rest, s, i, caps)
                    IN  IF with.ok THEN with ELSE MatchK(rest, s, i, caps)
               [] r.t = "many" ->
                    LET more == MatchK(<<r.r, [t |-> "again", r |-> r.r, from |-> i]>> \o rest, s, i, caps)
                    IN  IF more.ok THEN more ELSE MatchK(rest, s, i, caps)
               [] r.t = "again" ->
                    \* an iteration that consumed nothing ends the repetition
                    IF i = r.from THEN MatchK(rest, s, i, caps)
                    ELSE MatchK(<<Many(r.r)>> \o rest, s, i, caps)
               [] r.t = "grp" ->
                    MatchK(<<r.r, [t |-> "end", n |-> r.n, from |-> i]>> \o rest, s, i, caps)
               [] r.t = "end" ->
                    MatchK(rest, s, i, (r.n :> <<r.from, i>>) @@ caps)
               [] r.t = "eos" ->
                    IF i = Len(s) + 1 \/ (i = Len(s) /\ s[i] = "\n")
                    THEN MatchK(rest, s, i, caps) ELSE NoMatch
               [] r.t = "wb" ->
                    IF IsWordAt(s, i - 1) # IsWordAt(s, i)
                    THEN MatchK(rest, s, i, caps) ELSE NoMatch

\* greedy: the repetition counts hi, hi-1, .., lo in this order
TryDown(rest, s, i, caps, lo, hi) ==
    IF lo > hi THEN NoMatch
    ELSE IF lo = hi THEN MatchK(rest, s, i + lo, caps)
    ELSE LET mid == (lo + hi + 1) \div 2
             upper == TryDown(rest, s, i, caps, mid, hi)
         IN  IF upper.ok THEN upper ELSE TryDown(rest, s, i, caps, lo, mid - 1)

\* non-greedy: the repetition counts lo, lo+1, .., hi in this order
TryUp(rest, s, i, caps, lo, hi) ==
    IF lo > hi THEN NoMatch
    ELSE IF lo = hi THEN MatchK(rest, s, i + lo, caps)
    ELSE LET mid == (lo + hi) \div 2
             lower == TryUp(rest, s, i, caps, lo, mid)
         IN  IF lower.ok THEN lower ELSE TryUp(rest, s, i, caps, mid + 1, hi)

\* the alternatives alts[lo], .., alts[hi] in this order
TryAlt(alts, rest, s, i, caps, lo, hi) ==
    IF lo > hi THEN NoMatch
    ELSE IF lo = hi THEN MatchK(<<alts[lo]>> \o rest, s, i, caps)
    ELSE LET mid == (lo + hi) \div 2
             first == TryAlt(alts, rest, s, i, caps, lo, mid)
         IN  IF first.ok THEN first ELSE TryAlt(alts, rest, s, i, caps, mid + 1, hi)

\* re.match at position i (1-based)
MatchAt(r, s, i) == MatchK(<<r>>, s, i, <<>>)

\* leftmost position in lo..hi at which r matches, 0 when there is none
RECURSIVE FirstHit(_, _, _, _)
FirstHit(r, s, lo, hi) ==
    IF lo > hi THEN 0
    ELSE IF lo = hi THEN (IF MatchAt(r, s, lo).ok THEN lo ELSE 0)
    ELSE LET mid == (lo + hi) \div 2
             left == FirstHit(r, s, lo, mid)
         IN  IF left # 0 THEN left ELSE FirstHit(r, s, mid + 1, hi)

\* re.search(r, s) from position from (1-based): [ok, start, end, caps]
SearchFrom(r, s, from) ==
    LET at == FirstHit(r, s, from, Len(s) + 1)
    IN  IF at = 0 THEN [ok |-> FALSE, start |-> 0, end |-> 0, caps |-> <<>>]
        ELSE LET m == MatchAt(r, s, at)
             IN  [ok |-> TRUE, start |-> at, end |-> m.end, caps |-> m.caps]

Search(r, s) == SearchFrom(r, s, 1)

\* match.group(n) read from text; a group that took no part is None
None == <<"None">>
Group(m, text, n) ==
    IF n \in DOMAIN m.caps THEN SubSeq(text, m.caps[n][1], m.caps[n][2] - 1) ELSE None

(***************************************************************************)
(* BaseExtractor helpers                                                   *)
(***************************************************************************)
\* value of a digit string, most significant digit first
RECURSIVE DigitsValue(_)
DigitsValue(ds) ==
    IF ds = <<>> THEN 0
    ELSE 10 * DigitsValue(SubSeq(ds, 1, Len(ds) - 1))
         + (CHOOSE d \in 0..9 : DigitChars[d + 1] = ds[Len(ds)])

\* n whole units in hundredths
Units(n) == n * 100

\* An Optional[float]: None is Nothing, a float v (in hundredths) is Some(v)
Nothing == [some |-> FALSE, v |-> 0]
Some(v) == [some |-> TRUE, v |-> v]
\* "x if x is not None else default", the default argument of the helpers
OrElse(opt, default) == IF opt.some THEN opt.v ELSE default

\* Python float(text) for a text of digits, '.' and '-': Some(value in
\* hundredths), or Nothing where float() raises ValueError.  Digits after
\* the second decimal place are not represented; the modelled texts carry
\* at most two.
FloatSyntax ==
    Cat(<<Opt(Lit("-")),
          Alt(<<Cat(<<Plus(DigitCls), Opt(Lit(".")), Star(DigitCls)>>),
                Cat(<<Lit("."), Plus(DigitCls)>>)>>),
          Eos>>)
ParseFloat(text) ==
    IF ~MatchAt(FloatSyntax, text, 1).ok
    THEN Nothing
    ELSE LET neg == text[1] = "-"
             body == IF neg THEN Tail(text) ELSE text
             dot == Find(body, <<".">>)
             whole == IF dot = -1 THEN body ELSE SubSeq(body, 1, dot)
             frac == IF dot = -1 THEN <<>> ELSE SubSeq(body, dot + 2, Len(body))
             frac2 == SubSeq(frac \o <<"0", "0">>, 1, 2)
             mag == Units(DigitsValue(whole)) + DigitsValue(frac2)
         IN  Some(IF neg THEN 0 - mag ELSE mag)

NumberChars == Digit \cup {".", "-"}
IsNumberChar(c) == c \in NumberChars

\* BaseExtractor.extract_number: re.sub(r'[^\d.-]', '', text), then float();
\* the Optional result, to which the caller applies its default with OrElse
extract_number(text) == ParseFloat(SelectSeq(text, IsNumberChar))

\* BaseExtractor.extract_date: dateutil.parser.parse(text).date().isoformat(),
\* None when parse raises ValueError.  dateutil is a library outside the
\* repository; its answer is spelled out for "Month D, YYYY" and "M/D/YYYY",
\* it is None for a text without any digit (parse finds no date in it), and
\* for every other text it is kept as the term <<"dateutil", text>>.
MonthNames ==
    <<"january", "february", "march", "april", "may", "june", "july", "august",
      "september", "october", "november", "december">>
MonthOf(word) ==
    LET hits == {k \in 1..12 : word = Chars(MonthNames[k])
                                \/ word = SubSeq(Chars(MonthNames[k]), 1, 3)}
    IN  IF hits = {} THEN 0 ELSE MinOf(hits)
DaysIn(month, year) ==
    IF month \in {4, 6, 9, 11} THEN 30
    ELSE IF month # 2 THEN 31
    ELSE IF year % 4 = 0 /\ (year % 100 # 0 \/ year % 400 = 0) THEN 29 ELSE 28
Pad(n, width) ==
    [k \in 1..width |-> DigitChars[((n \div (10 ^ (width - k))) % 10) + 1]]
IsoFormat(year, month, day) ==
    IF month \in 1..12 /\ day >= 1 /\ day <= DaysIn(month, year)
    THEN Pad(year, 4) \o <<"-">> \o Pad(month, 2) \o <<"-">> \o Pad(day, 2)
    ELSE None
LongDate ==
    Cat(<<Grp(1, Plus(Cls(Letter \cup Upper))), Plus(SpaceCls), Grp(2, Rep(DigitCls, 1, 2)),
          Opt(Lit(",")), Plus(SpaceCls), Grp(3, Rep(DigitCls, 4, 4)), Eos>>)
SlashDate ==
    Cat(<<Grp(1, Rep(DigitCls, 1, 2)), Lit("/"), Grp(2, Rep(DigitCls, 1, 2)), Lit("/"),
          Grp(3, Rep(DigitCls, 4, 4)), Eos>>)
extract_date(text) ==
    LET long == MatchAt(LongDate, text, 1)
        slash == MatchAt(SlashDate, text, 1)
    IN  IF long.ok
        THEN IsoFormat(DigitsValue(Group(long, text, 3)), MonthOf(Lower(Group(long, text, 1))),
                       DigitsValue(Group(long, text, 2)))
        ELSE IF slash.ok
        THEN IsoFormat(DigitsValue(Group(slash, text, 3)), DigitsValue(Group(slash, text, 1)),
                       DigitsValue(Group(slash, text, 2)))
        ELSE IF \A k \in 1..Len(text) : text[k] \notin Digit THEN None
        ELSE <<"dateutil", text>>

\* dict.get(key, default) on a record/function
Get(d, k, default) == IF k \in DOMAIN d THEN d[k] ELSE default

\* the elements of a finite set of integers in ascending order
Ascending(S) ==
    [j \in 1..Cardinality(S) |-> CHOOSE i \in S : Cardinality({y \in S : y < i}) = j - 1]

RECURSIVE SumSeq(_)
SumSeq(ns) == IF ns = <<>> THEN 0 ELSE Head(ns) + SumSeq(Tail(ns))

(***************************************************************************)
(* RentRollExtractor                                                       *)
(***************************************************************************)
header_indicators ==
    <<Chars("unit"), Chars("tenant"), Chars("square feet"), Chars("sf"), Chars("rent"), Chars("lease")>>

\* RentRollExtractor._find_header_line: index of the first line holding at
\* least three indicators, 0 when there is none
HeaderNeed == 3
find_header_line(lines) ==
    LET hits == {k \in 1..Len(lines) :
                    Cardinality({j \in 1..Len(header_indicators) :
                        Contains(Lower(lines[k]), header_indicators[j])}) >= HeaderNeed}
    IN  IF hits = {} THEN 0 ELSE MinOf(hits)

\* the column names in dict order, their header variations and widths
column_names ==
    <<"unit", "tenant", "square_footage", "rent", "start_date", "end_date", "security_deposit">>
column_variations ==
    [unit |-> <<Chars("unit"), Chars("suite"), Chars("space")>>,
     tenant |-> <<Chars("tenant"), Chars("occupant"), Chars("customer")>>,
     square_footage |-> <<Chars("sf"), Chars("sqft"), Chars("square feet"), Chars("size")>>,
     rent |-> <<Chars("rent"), Chars("rate"), Chars("amount")>>,
     start_date |-> <<Chars("start"), Chars("commence"), Chars("begin")>>,
     end_date |-> <<Chars("end"), Chars("expir"), Chars("term")>>,
     security_deposit |-> <<Chars("deposit"), Chars("security")>>]
column_width ==
    [unit |-> 10, tenant |-> 30, square_footage |-> 15, rent |-> 15,
     start_date |-> 12, end_date |-> 12, security_deposit |-> 15]

\* RentRollExtractor._get_column_positions: column -> <<start, end>> (0-based)
\* for the columns one of whose variations occurs in the header
get_column_positions(header) ==
    LET header_lower == Lower(header)
        found(col) == {v \in 1..Len(column_variations[col]) :
                          Find(header_lower, column_variations[col][v]) # -1}
        pos(col) == Find(header_lower, column_variations[col][MinOf(found(col))])
        cols == {column_names[k] : k \in {j \in 1..Len(column_names) : found(column_names[j]) # {}}}
    IN  [col \in cols |-> <<pos(col), pos(col) + column_width[col]>>]

vacancy_terms == <<Chars("vacant"), Chars("empty"), Chars("available")>>

\* the key under which _parse_tenant_line stores a column
TenantKey(col) == col

\* RentRollExtractor._parse_tenant_line (for a line that is not blank)
parse_tenant_line(line, columns) ==
    LET sliced == {col \in DOMAIN columns : columns[col][1] < Len(line)}
        value(col) == Strip(Slice(line, columns[col][1], columns[col][2]))
        field(col) ==
            IF col \in {"square_footage", "rent", "security_deposit"}
            THEN OrElse(extract_number(value(col)), 0)
            ELSE IF col \in {"start_date", "end_date"} THEN extract_date(value(col))
            ELSE value(col)
        keys == {TenantKey(col) : col \in sliced}
        fields == [k \in keys |-> field(CHOOSE col \in sliced : TenantKey(col) = k)]
        name == Lower(Get(fields, "tenant", <<>>))
        occupied == ~\E j \in 1..Len(vacancy_terms) : Contains(name, vacancy_terms[j])
    IN  fields @@ [occupied |-> occupied]

\* RentRollExtractor._extract_tenants
extract_tenants(content) ==
    LET lines == Split(content, "\n")
        h == find_header_line(lines)
        header == lines[h]
        columns == get_column_positions(header)
        body == {k \in 1..Len(lines) :
                    /\ k > h
                    /\ Strip(lines[k]) # Strip(header)
                    /\ Strip(lines[k]) # <<>>}
        order == Ascending(body)
    IN  IF h = 0 THEN <<>>
        ELSE [j \in 1..Len(order) |-> parse_tenant_line(lines[order[j]], columns)]

\* a quotient kept exact
Ratio(n, d) == [num |-> n, den |-> d]
Zero == Ratio(0, 1)

\* the summary block of RentRollExtractor.extract
EveryUnitCounts(t) == TRUE
OccupiedCounts(t) == Get(t, "occupied", TRUE)
rent_roll_summary(tenant_data) ==
    LET n == Len(tenant_data)
        total_sf == SumSeq([j \in 1..n |-> Get(tenant_data[j], "square_footage", 0)])
        total_rent == SumSeq([j \in 1..n |-> Get(tenant_data[j], "current_rent", 0)])
        occupied_sf == SumSeq([j \in 1..n |->
                          IF OccupiedCounts(tenant_data[j])
                          THEN Get(tenant_data[j], "square_footage", 0) ELSE 0])
    IN  [total_units |-> n,
         total_square_footage |-> total_sf,
         occupied_square_footage |-> occupied_sf,
         occupancy_rate |-> IF total_sf > 0 THEN Ratio(occupied_sf * 100, total_sf) ELSE Zero,
         total_monthly_rent |-> total_rent,
         average_rent_psf |-> IF total_sf > 0 THEN Ratio(total_rent * 12, total_sf) ELSE Zero]

(***************************************************************************)
(* BaseExtractor: instance state, validation, result                       *)
(***************************************************************************)
\* an empty dict
EmptyDict == <<>>

\* BaseExtractor.__init__ (risk_factors and processing_metadata hold
\* constants and clock readings and are left out)
NewExtractor ==
    [confidence_scores |-> {},
     extracted_data |-> EmptyDict,
     validation_errors |-> <<>>,
     market_data |-> EmptyDict]

\* BaseExtractor.fetch_market_data (the timestamp entry is left out)
fetch_market_data(property_type, location) ==
    [property_type |-> property_type, location |-> location]

\* BaseExtractor.assess_risk_profile: the four placeholder factors are 0.5
\* each; scores and weights in hundredths
risk_weights == <<30, 20, 30, 20>>
risk_scores == <<50, 50, 50, 50>>
assess_risk_profile ==
    LET total_risk == SumSeq([k \in 1..4 |-> risk_scores[k] * risk_weights[k]])
    IN  IF total_risk < 30 * 100 THEN "core"
        ELSE IF total_risk < 60 * 100 THEN "valueAdd"
        ELSE "opportunistic"

\* BaseExtractor._validate_required_fields
validate_required_fields(extracted_data, required_fields) ==
    LET missing == {k \in 1..Len(required_fields) : required_fields[k] \notin DOMAIN extracted_data}
        order == Ascending(missing)
    IN  [j \in 1..Len(order) |-> "Missing required field: " \o required_fields[order[j]]]

\* BaseExtractor._validate_data_ranges: rules is a sequence of
\* <<field, min, max>>
validate_data_ranges(extracted_data, rules) ==
    LET bad == {k \in 1..Len(rules) :
                   /\ rules[k][1] \in DOMAIN extracted_data
                   /\ ~(rules[k][2] <= extracted_data[rules[k][1]]
                        /\ extracted_data[rules[k][1]] <= rules[k][3])}
        order == Ascending(bad)
    IN  [j \in 1..Len(order) |-> "Value outside valid range: " \o rules[order[j]][1]]

\* BaseExtractor._validate_data_formats: rules is a sequence of
\* <<field, compiled pattern>>; rule.match anchors at the start of the text
StrOf(text) == text
validate_data_formats(extracted_data, rules) ==
    LET bad == {k \in 1..Len(rules) :
                   /\ rules[k][1] \in DOMAIN extracted_data
                   /\ ~MatchAt(rules[k][2], StrOf(extracted_data[rules[k][1]]), 1).ok}
        order == Ascending(bad)
    IN  [j \in 1..Len(order) |-> "Invalid format for " \o rules[order[j]][1]]

\* BaseExtractor.validate: the error list it leaves in validation_errors
\* (market_data never holds "market_noi_range", so the market check adds none)
ValidateStart(old_errors) == <<>>
validate(self, required_fields, format_rules, range_rules) ==
    ValidateStart(self.validation_errors)
    \o validate_required_fields(self.extracted_data, required_fields)
    \o validate_data_formats(self.extracted_data, format_rules)
    \o validate_data_ranges(self.extracted_data, range_rules)

\* BaseExtractor.get_result: the dict returned, with its keys
SuccessOf(errors) == Len(errors) = 0
get_result(self) ==
    [data |-> self.extracted_data,
     confidence_analysis |-> [field_scores |-> self.confidence_scores,
                              market_data_used |-> self.market_data # EmptyDict],
     validation |-> [errors |-> self.validation_errors,
                     passed |-> Len(self.validation_errors) = 0],
     risk_profile |-> assess_risk_profile,
     market_data |-> self.market_data,
     success |-> SuccessOf(self.validation_errors)]

\* the element of a one-element set: The({e : v \in {x}}) is e with the
\* local variable v assigned the value of x
The(S) == CHOOSE r \in S : TRUE

\* the except clause of every extract(): record the failure, return the result
ExtractionError(errors, message) == Append(errors, "Extraction error: " \o message)
on_exception(self, message) ==
    The({[self |-> failed, result |-> get_result(failed), exc |-> message, raised |-> FALSE] :
            failed \in {[self EXCEPT !.validation_errors = ExtractionError(@, message)]}})

(***************************************************************************)
(* RentRollExtractor: confidence, validation rules, extract                *)
(***************************************************************************)
\* RentRollExtractor._get_required_fields
rent_roll_required_fields == <<"unit", "square_footage", "current_rent", "tenant">>

\* RentRollExtractor._get_range_rules (hundredths)
rent_roll_range_rules ==
    <<<<"square_footage", Units(100), Units(1000000)>>,
      <<"current_rent", 0, Units(1000000)>>,
      <<"occupancy_rate", 0, Units(100)>>,
      <<"security_deposit", 0, Units(1000000)>>>>

\* RentRollExtractor._get_format_rules
UnitFormat == Cat(<<Plus(Cls(Letter \cup Upper \cup Digit \cup {"-", "."})), Eos>>)
DecimalFormat == Cat(<<Plus(DigitCls), Opt(Cat(<<Lit("."), Rep(DigitCls, 1, 2)>>)), Eos>>)
IsoDateFormat == Cat(<<Rep(DigitCls, 4, 4), Lit("-"), Rep(DigitCls, 2, 2), Lit("-"), Rep(DigitCls, 2, 2), Eos>>)
rent_roll_format_rules ==
    <<<<"unit", UnitFormat>>, <<"square_footage", DecimalFormat>>,
      <<"current_rent", DecimalFormat>>, <<"start_date", IsoDateFormat>>,
      <<"end_date", IsoDateFormat>>>>

\* RentRollExtractor._infer_property_type; None when it divides by zero
\* (len(self.tenant_data) = 0)
NoType == "ZeroDivisionError"
infer_property_type(tenant_data) ==
    LET n == Len(tenant_data)
        total == SumSeq([j \in 1..n |-> Get(tenant_data[j], "square_footage", 0)])
    IN  IF n = 0 THEN NoType
        \* avg_size = total / n compared with 1000 and 5000
        ELSE IF total < Units(1000) * n THEN "multifamily"
        ELSE IF total < Units(5000) * n THEN "retail"
        ELSE IF \E j \in 1..n : Contains(Lower(Get(tenant_data[j], "tenant", <<>>)), Chars("warehouse"))
             THEN "industrial"
        ELSE "office"

\* the dict key f"tenant_{unit}" / "tenant.<field>" / "summary" / "overall"
TenantScoreKey(t) == <<"tenant_", Get(t, "unit", Chars("unknown"))>>
FieldScoreKey(f) == <<"tenant.", f>>

\* RentRollExtractor._calculate_confidence_scores: which keys it sets (the
\* float scores are not represented), the market data it fetches, and
\* the message of the exception it raises ("" when none): ZeroDivisionError comes from _infer_property_type on
\* an empty tenant list and from rent_psf on a square_footage of 0.
rent_roll_confidence_scores(self, tenant_data) ==
    LET n == Len(tenant_data)
        fetch == self.market_data = EmptyDict
        ptype == infer_property_type(tenant_data)
        market == IF fetch THEN fetch_market_data(ptype, "unknown") ELSE self.market_data
        \* the tenants whose rent_psf divides by zero
        zero == {j \in 1..n : Get(tenant_data[j], "square_footage", Units(1)) = 0}
        stop == IF zero = {} THEN n + 1 ELSE MinOf(zero)
        field_keys == IF n = 0 THEN {}
                      ELSE {FieldScoreKey(rent_roll_required_fields[k]) : k \in 1..4}
        tenant_keys == {TenantScoreKey(tenant_data[j]) : j \in 1..(stop - 1)}
    IN  IF fetch /\ ptype = NoType
        THEN [raised |-> "division by zero", market_data |-> self.market_data,
              confidence_scores |-> self.confidence_scores]
        ELSE IF zero # {}
        THEN [raised |-> "float division by zero", market_data |-> market,
              confidence_scores |-> self.confidence_scores \cup field_keys \cup tenant_keys]
        ELSE [raised |-> "", market_data |-> market,
              confidence_scores |-> self.confidence_scores \cup field_keys \cup tenant_keys
                                    \cup {<<"summary">>, <<"overall">>}]

\* RentRollExtractor.extract: [self |-> the instance afterwards,
\* result |-> the dict returned, exc |-> the message of the exception the
\* try block caught ("" when none), raised |-> whether extract itself raised]
RentRollExtract(self, content) ==
    The({The({The({The({
        IF conf.raised # "" THEN on_exception(scored, conf.raised)
        ELSE The({[self |-> validated, result |-> get_result(validated),
                   exc |-> "", raised |-> FALSE] :
                  validated \in {[scored EXCEPT !.validation_errors =
                                     validate(scored, rent_roll_required_fields,
                                              rent_roll_format_rules, rent_roll_range_rules)]}})
        : scored \in {[stored EXCEPT !.market_data = conf.market_data,
                                     !.confidence_scores = conf.confidence_scores]}})
        : conf \in {rent_roll_confidence_scores(stored, tenant_data)}})
        : stored \in {[self EXCEPT !.extracted_data =
                          [tenants |-> tenant_data,
                           summary |-> rent_roll_summary(tenant_data)]]}})
        : tenant_data \in {extract_tenants(content)}})

(***************************************************************************)
(* PLStatementExtractor                                                    *)
(***************************************************************************)
\* a pattern of words separated by \s*, e.g. net\s*income
Words(ws) ==
    Cat([k \in 1..(2 * Len(ws) - 1) |->
            IF k % 2 = 1 THEN Lit(ws[(k + 1) \div 2]) ELSE Star(SpaceCls)])

\* PLStatementExtractor._extract_section: the text from the first match of
\* the first start pattern that occurs to the first match, after it, of the
\* first end pattern that occurs; None without a start
extract_section(content, start_patterns, end_patterns) ==
    The({
        LET starts == {k \in 1..Len(start_patterns) : Search(start_patterns[k], lower).ok}
        IN  IF starts = {} THEN None
            ELSE The({The({
                     LET ends == {k \in 1..Len(end_patterns) : Search(end_patterns[k], rest).ok}
                         end_pos == IF ends = {} THEN Len(content) + 1
                                    ELSE start_pos + Search(end_patterns[MinOf(ends)], rest).start - 1
                     IN  SubSeq(content, start_pos, end_pos - 1)
                     : rest \in {SubSeq(lower, start_pos, Len(lower))}})
                     : start_pos \in {Search(start_patterns[MinOf(starts)], lower).start}})
        : lower \in {Lower(content)}})

\* PLStatementExtractor._extract_amount: r'\$?\s*([\d,]+\.?\d*)\s*$', then the
\* same without the anchor; extract_number(match.group(1)), None without match
AmountDigits == Grp(1, Cat(<<Plus(Cls(Digit \cup {","})), Opt(Lit(".")), Star(DigitCls)>>))
AmountAtEnd == Cat(<<Opt(Lit("$")), Star(SpaceCls), AmountDigits, Star(SpaceCls), Eos>>)
AmountAnywhere == Cat(<<Opt(Lit("$")), Star(SpaceCls), AmountDigits>>)
extract_amount(line) ==
    LET at_end == Search(AmountAtEnd, line)
        anywhere == Search(AmountAnywhere, line)
    IN  IF at_end.ok THEN extract_number(Group(at_end, line, 1))
        ELSE IF anywhere.ok THEN extract_number(Group(anywhere, line, 1))
        ELSE Nothing

\* f"{amount:,.2f}" of an amount >= 0 in hundredths
RECURSIVE Grouped(_)
Grouped(n) ==
    IF n < 10 THEN <<DigitChars[n + 1]>>
    ELSE IF n < 1000 THEN Grouped(n \div 10) \o <<DigitChars[(n % 10) + 1]>>
    ELSE Grouped(n \div 1000) \o <<",">> \o Pad(n % 1000, 3)
\* the pattern rf'\$?{amount:,.2f}': the '.' of the amount matches any
\* character but a newline
AmountPattern(amount) ==
    Cat(<<Opt(Lit("$")), [t |-> "lit", s |-> Grouped(amount \div 100)],
          One(NotCls({"\n"})), [t |-> "lit", s |-> Pad(amount % 100, 2)]>>)

\* re.sub(r, '', s) from position from
RECURSIVE RemoveAll(_, _, _)
RemoveAll(r, s, from) ==
    LET m == SearchFrom(r, s, from)
    IN  IF ~m.ok THEN SubSeq(s, from, Len(s))
        ELSE IF m.end = m.start
        THEN IF m.start > Len(s) THEN SubSeq(s, from, Len(s))
             ELSE SubSeq(s, from, m.start) \o RemoveAll(r, s, m.start + 1)
        ELSE SubSeq(s, from, m.start - 1) \o RemoveAll(r, s, m.end)

\* PLStatementExtractor._clean_description
TrailingSeparators == WS \cup {"-", "_", "."}
clean_description(line, amount) ==
    The({
        LET keep == {k \in 1..Len(cut) : cut[k] \notin TrailingSeparators}
        IN  Strip(SubSeq(cut, 1, IF keep = {} THEN 0 ELSE MaxOf(keep)))
        : cut \in {RemoveAll(AmountPattern(amount), line, 1)}})

\* PLStatementExtractor._categorize_item; a category is <<pattern, the name
\* category.replace(r'\s*', ' ').strip()>>
categorize_item(description, categories) ==
    LET hits == {k \in 1..Len(categories) : Search(categories[k][1], Lower(description)).ok}
    IN  IF hits = {} THEN "other" ELSE categories[MinOf(hits)][2]

revenue_categories ==
    <<<<Words(<<"rental", "income">>), "rental income">>,
      <<Words(<<"parking", "income">>), "parking income">>,
      <<Words(<<"other", "income">>), "other income">>,
      <<Words(<<"recovery", "income">>), "recovery income">>,
      <<Words(<<"utility", "reimbursement">>), "utility reimbursement">>,
      <<Cat(<<Lit("late"), Star(SpaceCls), Lit("fee"), Opt(Lit("s"))>>), "late fees?">>,
      <<Words(<<"miscellaneous", "income">>), "miscellaneous income">>>>
expense_categories ==
    <<<<Lit("utilities"), "utilities">>,
      <<Cat(<<Lit("repair"), Opt(Lit("s")), Star(SpaceCls), Opt(Alt(<<Lit("and"), Lit("&")>>)),
              Star(SpaceCls), Lit("maintenance")>>), "repairs? (?:and|&)? maintenance">>,
      <<Cat(<<Lit("property"), Star(SpaceCls), Lit("tax"), Opt(Lit("es"))>>), "property tax(?:es)?">>,
      <<Lit("insurance"), "insurance">>,
      <<Cat(<<Lit("management"), Star(SpaceCls), Lit("fee"), Opt(Lit("s"))>>), "management fees?">>,
      <<Lit("payroll"), "payroll">>,
      <<Lit("marketing"), "marketing">>,
      <<Lit("administrative"), "administrative">>,
      <<Cat(<<Lit("professional"), Star(SpaceCls), Lit("fee"), Opt(Lit("s"))>>), "professional fees?">>,
      <<Lit("landscaping"), "landscaping">>,
      <<Lit("security"), "security">>,
      <<Lit("cleaning"), "cleaning">>,
      <<Lit("supplies"), "supplies">>>>

\* the line loop shared by _extract_revenue_items and _extract_expense_items:
\* blank lines and lines holding a header word are skipped, a line with an
\* amount gives one item
IsSkipped(line, headers) ==
    Strip(line) = <<>> \/ \E k \in 1..Len(headers) : Contains(Lower(line), Chars(headers[k]))
line_item(line, categories) ==
    The({The({[description |-> description, amount |-> amount,
               category |-> categorize_item(description, categories)]
              : description \in {clean_description(line, amount)}})
         : amount \in {extract_amount(line).v}})
section_items(section, headers, categories) ==
    IF section = None \/ section = <<>> THEN <<>>
    ELSE The({The({[j \in 1..Len(order) |-> line_item(lines[order[j]], categories)]
                   : order \in {Ascending({k \in 1..Len(lines) :
                                    ~IsSkipped(lines[k], headers) /\ extract_amount(lines[k]).some})}})
              : lines \in {Split(section, "\n")}})

\* PLStatementExtractor._extract_revenue_items
extract_revenue_items(content) ==
    section_items(extract_section(content, <<Lit("revenue"), Lit("income"), Lit("receipts")>>,
                                  <<Lit("expenses"), Lit("costs"), Lit("deductions")>>),
                  <<"revenue", "income", "total">>, revenue_categories)

\* PLStatementExtractor._extract_expense_items
extract_expense_items(content) ==
    section_items(extract_section(content, <<Lit("expenses"), Lit("costs"), Lit("deductions")>>,
                                  <<Words(<<"net", "income">>), Lit("total"), Lit("summary")>>),
                  <<"expense", "cost", "total">>, expense_categories)

\* PLStatementExtractor._infer_property_type
InAnyCategory(items, words) ==
    \E j \in 1..Len(items) : \E w \in words : Contains(Lower(Chars(items[j].category)), Chars(w))
pl_infer_property_type(revenue_items) ==
    IF InAnyCategory(revenue_items, {"apartment", "residential"}) THEN "multifamily"
    ELSE IF InAnyCategory(revenue_items, {"retail", "restaurant"}) THEN "retail"
    ELSE IF InAnyCategory(revenue_items, {"warehouse", "industrial"}) THEN "industrial"
    ELSE "office"

\* PLStatementExtractor._calculate_confidence_scores: the market data it
\* fetches and the keys it sets (no step of it can raise)
pl_confidence_scores(self, revenue_items, expense_items) ==
    [market_data |-> IF self.market_data = EmptyDict
                     THEN fetch_market_data(pl_infer_property_type(revenue_items), "unknown")
                     ELSE self.market_data,
     confidence_scores |->
        self.confidence_scores
        \cup {<<"revenue.", revenue_items[j].category>> : j \in 1..Len(revenue_items)}
        \cup {<<"expense.", expense_items[j].category>> : j \in 1..Len(expense_items)}
        \cup {<<"metrics">>, <<"risk_adjusted">>, <<"revenue">>, <<"expenses">>, <<"overall">>}]

\* the summary block of PLStatementExtractor.extract
noi_sum(total_revenue, total_expenses) == total_revenue + total_expenses
noi_of(total_revenue, total_expenses) == total_revenue - total_expenses
pl_summary(total_revenue, total_expenses) ==
    [gross_income |-> total_revenue,
     total_expenses |-> total_expenses,
     noi |-> noi_of(total_revenue, total_expenses),
     expense_ratio |-> IF total_revenue > 0 THEN Ratio(total_expenses * 100, total_revenue)
                       ELSE Zero]
Amounts(items) == SumSeq([j \in 1..Len(items) |-> items[j].amount])
pl_extracted_data(revenue_items, expense_items) ==
    [revenue |-> [items |-> revenue_items, total |-> Amounts(revenue_items)],
     expenses |-> [items |-> expense_items, total |-> Amounts(expense_items)],
     summary |-> pl_summary(Amounts(revenue_items), Amounts(expense_items))]

\* PLStatementExtractor.validate: the error list it leaves (market_data holds
\* no *_range key, so the market comparisons add nothing)
pl_validate(self) ==
    LET revenue_items == self.extracted_data.revenue.items
        expense_items == self.extracted_data.expenses.items
        summary == self.extracted_data.summary
        items == revenue_items \o expense_items
        negative == Ascending({j \in 1..Len(items) : items[j].amount < 0})
    IN  IF revenue_items = <<>> /\ expense_items = <<>>
        THEN <<"No financial data extracted">>
        ELSE (IF summary.expense_ratio.num > 100 * summary.expense_ratio.den
              THEN <<"Invalid expense ratio > 100%">> ELSE <<>>)
             \o (IF summary.noi > summary.gross_income
                 THEN <<"NOI cannot be greater than gross income">> ELSE <<>>)
             \o [j \in 1..Len(negative) |-> "Negative amount found"]

\* PLStatementExtractor.extract
PLExtract(self, content) ==
    The({The({The({The({
        [self |-> validated, result |-> get_result(validated), exc |-> "", raised |-> FALSE]
        : validated \in {[stored EXCEPT !.market_data = conf.market_data,
                                        !.confidence_scores = conf.confidence_scores,
                                        !.validation_errors =
                                            pl_validate(stored)]}})
        : conf \in {pl_confidence_scores(stored, revenue_items, expense_items)}})
        : stored \in {[self EXCEPT !.extracted_data =
                          pl_extracted_data(revenue_items, expense_items)]}})
        : revenue_items \in {extract_revenue_items(content)},
          expense_items \in {extract_expense_items(content)}})

(***************************************************************************)
(* can_handle of the four extractors.  Confidences are in thousandths:     *)
(* every weight is a multiple of 0.05 and 0.3 / 3, and round(confidence, 3)*)
(* leaves such a sum unchanged.  A value returned is                       *)
(* [shape |-> "tuple", handle, confidence] or [shape |-> "bool", handle].  *)
(***************************************************************************)
Pair(handle, confidence) == [shape |-> "tuple", handle |-> handle, confidence |-> confidence]
Bare(handle) == [shape |-> "bool", handle |-> handle]
\* Python truth value of what can_handle returned: a non-empty tuple is true
Truthy(ret) == IF ret.shape = "tuple" THEN TRUE ELSE ret.handle

\* minimum confidence to handle, 0.3
Threshold == 300

\* sum of the weights (<<pattern, weight>>) whose pattern occurs in the text
ContentConfidence(indicators, text) ==
    SumSeq([k \in 1..Len(indicators) |->
               IF Search(indicators[k][1], text).ok THEN indicators[k][2] ELSE 0])

\* RentRollExtractor.can_handle
rent_roll_filename_indicators == <<"rent", "roll", "tenant">>
rent_roll_indicators ==
    <<<<Words(<<"rent", "roll">>), 200>>, <<Words(<<"tenant", "schedule">>), 100>>,
      <<Words(<<"lease", "schedule">>), 100>>, <<Words(<<"unit", "number">>), 100>>,
      <<Words(<<"tenant", "name">>), 100>>, <<Words(<<"monthly", "rent">>), 100>>>>
rent_roll_can_handle(content, filename) ==
    LET filename_matches ==
            Cardinality({k \in 1..3 :
                Contains(Lower(filename), Chars(rent_roll_filename_indicators[k]))})
        \* min(filename_matches / 3, 1.0) * 0.3
        filename_confidence == (MinOf({filename_matches * 1000, 3000}) * 300) \div 3000
        confidence == filename_confidence + ContentConfidence(rent_roll_indicators, Lower(content))
    IN  Pair(confidence >= Threshold, confidence)

\* PLStatementExtractor.can_handle
pl_filename_indicators ==
    <<<<"p&l", 300>>, <<"profit", 200>>, <<"loss", 200>>, <<"income", 200>>, <<"operating", 100>>>>
pl_content_indicators ==
    <<<<Cat(<<Lit("profit"), Star(SpaceCls), Alt(<<Lit("and"), Lit("&")>>), Star(SpaceCls),
              Lit("loss")>>), 200>>,
      <<Words(<<"income", "statement">>), 150>>,
      <<Words(<<"operating", "statement">>), 100>>,
      <<Cat(<<Lit("revenue"), Opt(Lit("s"))>>), 100>>,
      <<Cat(<<Lit("expense"), Opt(Lit("s"))>>), 50>>,
      <<Words(<<"net", "operating", "income">>), 50>>,
      <<Words(<<"gross", "income">>), 50>>>>
pl_can_handle(content, filename) ==
    LET filename_confidence ==
            SumSeq([k \in 1..Len(pl_filename_indicators) |->
                       IF Contains(Lower(filename), Chars(pl_filename_indicators[k][1]))
                       THEN pl_filename_indicators[k][2] ELSE 0])
        confidence == filename_confidence + ContentConfidence(pl_content_indicators, Lower(content))
    IN  Pair(confidence >= Threshold, confidence)

\* any(term in filename.lower()) or any(re.search(pattern, content.lower()))
AnyIndicator(content, filename, filename_indicators, indicators) ==
    \/ \E k \in 1..Len(filename_indicators) :
          Contains(Lower(filename), Chars(filename_indicators[k]))
    \/ \E k \in 1..Len(indicators) : Search(indicators[k], Lower(content)).ok

\* OperatingStatementExtractor.can_handle
os_can_handle(content, filename) ==
    Bare(AnyIndicator(content, filename,
                      <<"operating", "statement", "performance", "actual">>,
                      <<Words(<<"operating", "statement">>), Words(<<"property", "performance">>),
                        Words(<<"actual", "vs", "budget">>), Words(<<"variance", "report">>),
                        Words(<<"year", "to", "date">>)>>))

\* LeaseExtractor.can_handle
lease_can_handle(content, filename) ==
    Bare(AnyIndicator(content, filename,
                      <<"lease", "tenant", "agreement", "contract">>,
                      <<Words(<<"lease", "agreement">>), Words(<<"tenant", "lease">>),
                        Words(<<"rental", "agreement">>), Words(<<"landlord", "and", "tenant">>),
                        Words(<<"premises", "lease">>), Words(<<"term", "of", "lease">>)>>))

(***************************************************************************)
(* Documents the extractors are run on                                     *)
(***************************************************************************)
\* tests/conftest.py sample_pdf_content
sample_pdf_content ==
    Chars("\n    RENT ROLL\n    Property: Test Property\n    Date: January 1, 2024\n\n    Unit    Tenant Name       Square Feet    Monthly Rent    Lease Start    Lease End\n    101     ABC Corporation   1,500          $3,500.00       01/01/2023     12/31/2025\n    102     XYZ LLC           1,200          $2,800.00       03/15/2023     03/14/2024\n    103     Vacant            1,000          $0.00           N/A            N/A\n    201     DEF Industries    2,000          $5,000.00       06/01/2023     05/31/2026\n    ")

RentRollHeader == "Unit    Tenant    Square Feet    Rent"
RentRollBodies ==
    { "",
      "\n101     Corp      1,500          $-500",
      "\n102     Acme      0              $3,500",
      "\n103     Vacant    -200           $0",
      "\n104     Delta     1,200          $2,800",
      "\n          Beta    900            $100",
      "\n104     Delta     1,200          $2,800\n103     Vacant    1,000          $0",
      "\n101     Corp      1,500          $-500\n103     Vacant    -200           $0",
      "\n104     Delta     1,200          $2,800\n102     Acme      0              $3,500",
      "\n104     Delta     1,200          $2,800\n          Beta    900            $100",
      "\n104     Delta     6,000          $9,000\n105     Warehouse 7,000          $8,000" }
RentRollTexts ==
    {sample_pdf_content, <<>>, Chars("Quarterly report\nnothing tabular")}
        \cup {Chars(RentRollHeader \o b) : b \in RentRollBodies}

\* P&L statements: a revenue section and an expense section
PLRevenueLines == {"", "Base Rent   50,000\n", "Parking   $1,200.50\nLate Fees 100\n"}
PLExpenseLines == {"", "Utilities   5,000\nRepairs and Maintenance  $2,500.00\n",
                   "Property Taxes 60,250\nPayroll - 300.5\n"}
PLTexts ==
    {<<>>,
     Chars("Income\nRent 12 345\nExpenses\nCleaning $7 per unit\nSupplies ,\nSecurity 1,0,0.5"),
     Chars("Rental Income   $9,000\nOperating Costs\nInsurance 1,000\nSummary\nNOI 8,000"),
     Chars("Receipts\nLate Fees 100\nDeductions\nProperty Taxes 250\nLandscaping  40 ..\ntotal 290"),
     Chars("Revenue\nRental Income   $9,000\nParking Income 1,200\nLate Fees 100\nExpenses\nUtilities 5,000\nNet Income")}
        \cup {Chars("Revenue\n" \o r \o "Expenses\n" \o x \o "Net Income") :
                 r \in PLRevenueLines, x \in PLExpenseLines}

\* (content, filename) pairs offered to can_handle
HandleFilenames ==
    {Chars("document.pdf"), Chars("Rent_Roll_2024.pdf"), Chars("tenant_rent.pdf"),
     Chars("profit_loss_income.pdf"), Chars("P&L Operating Statement.xlsx"),
     Chars("lease_agreement.docx"), Chars("tenant_schedule.xlsx"),
     Chars("lease_schedule.docx")}
HandleContents ==
    {<<>>,
     Chars("This is a regular document without any relevant terms."),
     Chars("RENT ROLL\nUnit Number  Tenant Name  Monthly Rent"),
     Chars("Tenant Schedule"),
     Chars("Profit and Loss\nIncome Statement\nRevenue  Expenses"),
     Chars("Operating Statement: actual vs budget, net operating income, gross income"),
     Chars("LEASE AGREEMENT between Landlord and Tenant"),
     Chars("\n        Unit    Tenant Name    Square Feet    Monthly Rent\n        101     Test Corp      1,500          $3,500\n        ")}

(***************************************************************************)
(* Instantiation.  BaseExtractor is an ABC: a subclass that leaves one of  *)
(* its abstract methods undefined cannot be instantiated.                  *)
(***************************************************************************)
\* the methods BaseExtractor declares with @abstractmethod
abstract_methods ==
    {"can_handle", "extract", "_get_required_fields", "_get_format_rules", "_get_range_rules"}

\* the abstract methods each extractor class defines
class_methods ==
    [RentRollExtractor |-> abstract_methods,
     PLStatementExtractor |-> abstract_methods,
     OperatingStatementExtractor |-> {"can_handle", "extract"},
     LeaseExtractor |-> {"can_handle", "extract"}]

\* cls(): raises TypeError before __init__ runs when an abstract method is
\* left, otherwise the instance BaseExtractor.__init__ sets up
CannotInstantiate(cls) == "Can't instantiate abstract class " \o cls
Instantiate(cls) ==
    IF abstract_methods \subseteq class_methods[cls]
    THEN [raised |-> "", self |-> NewExtractor]
    ELSE [raised |-> CannotInstantiate(cls), self |-> EmptyDict]

\* DocumentProcessor.__init__: the four extractors, in registration order;
\* the first instantiation that raises ends the constructor
extractor_classes ==
    <<"RentRollExtractor", "PLStatementExtractor", "OperatingStatementExtractor",
      "LeaseExtractor">>
Registered(made) == [k \in 1..Len(made) |-> [cls |-> extractor_classes[k], self |-> made[k].self]]
DocumentProcessorInit ==
    The({ IF \E k \in 1..Len(made) : made[k].raised # ""
          THEN [raised |-> made[CHOOSE k \in 1..Len(made) :
                                   /\ made[k].raised # ""
                                   /\ \A j \in 1..(k - 1) : made[j].raised = ""].raised,
                self |-> EmptyDict]
          ELSE [raised |-> "", self |-> [extractors |-> Registered(made)]] :
          made \in {[k \in 1..Len(extractor_classes) |-> Instantiate(extractor_classes[k])]} })

(***************************************************************************)
(* DocumentProcessor.process_document                                      *)
(***************************************************************************)
\* extractor.can_handle(text_content, filename), by the class of the instance
CanHandleOf(cls, content, filename) ==
    CASE cls = "RentRollExtractor" -> rent_roll_can_handle(content, filename)
      [] cls = "PLStatementExtractor" -> pl_can_handle(content, filename)
      [] cls = "OperatingStatementExtractor" -> os_can_handle(content, filename)
      [] cls = "LeaseExtractor" -> lease_can_handle(content, filename)

\* extractor.extract(text_content), for the classes an instance of which exists
ExtractOf(cls, self, content) ==
    CASE cls = "RentRollExtractor" -> RentRollExtract(self, content)
      [] cls = "PLStatementExtractor" -> PLExtract(self, content)

\* the dictionaries process_document returns
ProcessingError(error) == [status |-> "error", error |-> error, extractions |-> <<>>]
ProcessingSuccess(extraction_results) ==
    [status |-> "success", error |-> "", extractions |-> extraction_results]

\* for extractor in self.extractors: a truthy can_handle runs extract; a
\* successful result is appended with result["confidence_scores"], a key
\* get_result does not set, and the KeyError ends the loop in the outer
\* except clause
RECURSIVE try_each_extractor(_, _, _, _, _)
try_each_extractor(extractors, k, text_content, filename, extraction_results) ==
    IF k > Len(extractors)
    THEN [extractors |-> extractors, returned |-> ProcessingSuccess(extraction_results)]
    ELSE IF ~Truthy(CanHandleOf(extractors[k].cls, text_content, filename))
    THEN try_each_extractor(extractors, k + 1, text_content, filename, extraction_results)
    ELSE The({ The({ IF ~r.result.success
                     THEN try_each_extractor(used, k + 1, text_content, filename,
                                             extraction_results)
                     ELSE IF "confidence_scores" \notin DOMAIN r.result
                     THEN [extractors |-> used,
                           returned |-> ProcessingError("'confidence_scores'")]
                     ELSE try_each_extractor(used, k + 1, text_content, filename,
                              Append(extraction_results,
                                     [extractor |-> extractors[k].cls,
                                      data |-> r.result.data,
                                      confidence |-> r.result.confidence_scores])) :
                     used \in {[extractors EXCEPT ![k].self = r.self]} }) :
               r \in {ExtractOf(extractors[k].cls, extractors[k].self, text_content)} })

\* a file: whether it exists, its name, and the text _process_pdf,
\* _process_excel or _process_word reads from it (None when reading failed)
SupportedExtensions == {Chars(".pdf"), Chars(".xlsx"), Chars(".docx")}
RECURSIVE LastDot(_, _)
LastDot(name, k) == IF k = 0 \/ name[k] = "." THEN k ELSE LastDot(name, k - 1)
\* os.path.splitext(file_path)[1].lower()
Extension(name) ==
    IF LastDot(name, Len(name)) <= 1 THEN <<>>
    ELSE Lower(SubSeq(name, LastDot(name, Len(name)), Len(name)))

process_document(self, file) ==
    IF ~file.exists THEN [extractors |-> self.extractors,
                          returned |-> ProcessingError("File not found")]
    ELSE IF Extension(file.name) \notin SupportedExtensions
    THEN [extractors |-> self.extractors,
          returned |-> ProcessingError(<<"Unsupported file type: ", Extension(file.name)>>)]
    ELSE IF file.text = None \/ file.text = <<>>
    THEN [extractors |-> self.extractors,
          returned |-> ProcessingError("Failed to extract text content")]
    ELSE try_each_extractor(self.extractors, 1, file.text, file.name, <<>>)

\* the files offered to process_document
ProcessFiles ==
    {[exists |-> e, name |-> n, text |-> t] :
        e \in BOOLEAN, n \in HandleFilenames \cup {Chars("notes.txt")},
        t \in HandleContents \cup {None}}

(***************************************************************************)
(* State: the RentRollExtractor and PLStatementExtractor instances a       *)
(* caller holds, the number of calls made on them since they were created, *)
(* and the last call with what it returned or raised.                      *)
(***************************************************************************)
VARIABLES extractors, calls, last, limiter, storage, migrations

vars == <<extractors, calls, last, limiter, storage, migrations>>
\* the state of the extractors and of the last call
pipeline == <<extractors, calls, last>>
\* the state of the rate limiter, of the upload store and of the schema
services == <<limiter, storage, migrations>>

\* extract() calls made on the instances before they are replaced
MaxCalls == 2

\* RentRollExtractor(), PLStatementExtractor()
NewInstances ==
    [rent_roll |-> Instantiate("RentRollExtractor").self,
     pl_statement |-> Instantiate("PLStatementExtractor").self]

NoCall == [op |-> "construct", kind |-> "", filename |-> <<>>, content |-> <<>>,
           result |-> EmptyDict, exc |-> "", raised |-> FALSE]

\* RateLimitMiddleware: the clients, the threads that call check_rate_limit,
\* and the module state of main.py before any request.  store is
\* rate_limit_store (a defaultdict: an absent client reads as the empty
\* list), lock the thread holding rate_limit_lock (0 when free), clock the
\* reading time.time() gives, pc, now and client each thread's position and
\* locals, allowed the requests check_rate_limit has let through, rejected
\* those it has refused, started the number of calls begun.
Clients == {"10.0.0.1", "10.0.0.2"}
Threads == {1, 2}
NewLimiter ==
    [store |-> [c \in Clients |-> <<>>], lock |-> 0, clock |-> 0,
     pc |-> [t \in Threads |-> "idle"], now |-> [t \in Threads |-> 0],
     client |-> [t \in Threads |-> "10.0.0.1"], allowed |-> <<>>, rejected |-> <<>>,
     started |-> 0]
\* the uploads directory and the documents collection before any request:
\* files are the names in the directory, records the documents inserted,
\* handler each upload_document coroutine's position and file, sweep the
\* position and the document_paths of cleanup_orphaned_files, removed the
\* files it has unlinked, begun the numbers of uploads and clean-ups begun
Handlers == {1, 2}
NewStorage ==
    [files |-> {}, records |-> <<>>,
     handler |-> [h \in Handlers |-> [pc |-> "idle", filename |-> ""]],
     sweep |-> [pc |-> "idle", uploads_dir |-> "", document_paths |-> {}],
     removed |-> {}, begun |-> [uploads |-> 0, sweeps |-> 0]]
\* the migrations collection and a MigrationManager before any call: records
\* are the versions recorded in db.migrations, cache the manager's
\* _applied_migrations, ups the migrations whose up has run to the end, each
\* with whether its version was recorded at that moment
NewSchema == [records |-> <<>>, cache |-> <<>>, ups |-> {}]

Init ==
    /\ extractors = NewInstances
    /\ calls = 0
    /\ last = NoCall
    /\ limiter = NewLimiter
    /\ storage = NewStorage
    /\ migrations = NewSchema

\* new instances replace the old ones
Construct ==
    /\ UNCHANGED services
    /\ calls > 0
    /\ extractors' = NewInstances
    /\ calls' = 0
    /\ last' = NoCall

Returned(kind, content, r) ==
    [op |-> "extract", kind |-> kind, filename |-> <<>>, content |-> content,
     result |-> r.result, exc |-> r.exc, raised |-> r.raised]

\* an exception that reaches the caller of op
Raised(op, kind, content, filename, exc) ==
    [op |-> op, kind |-> kind, filename |-> filename, content |-> content,
     result |-> EmptyDict, exc |-> exc, raised |-> TRUE]

\* RentRollExtractor.extract(content) on the caller's instance
RentRollExtractCall(pool) ==
    /\ UNCHANGED services
    /\ calls < MaxCalls
    /\ \E content \in pool :
          \E r \in {RentRollExtract(extractors.rent_roll, content)} :
              /\ extractors' = [extractors EXCEPT !.rent_roll = r.self]
              /\ last' = Returned("rent_roll", content, r)
    /\ calls' = calls + 1

\* PLStatementExtractor.extract(content) on the caller's instance
PLExtractCall(pool) ==
    /\ UNCHANGED services
    /\ calls < MaxCalls
    /\ \E content \in pool :
          \E r \in {PLExtract(extractors.pl_statement, content)} :
              /\ extractors' = [extractors EXCEPT !.pl_statement = r.self]
              /\ last' = Returned("pl_statement", content, r)
    /\ calls' = calls + 1

\* OperatingStatementExtractor().extract(content) and
\* LeaseExtractor().extract(content): the instantiation raises, the body
\* of extract is not reached
AbstractExtractCall(cls, kind, pool) ==
    /\ UNCHANGED services
    /\ calls < MaxCalls
    /\ \E content \in pool :
          \E made \in {Instantiate(cls)} :
              /\ made.raised # ""
              /\ last' = Raised("extract", kind, content, <<>>, made.raised)
    /\ calls' = calls + 1
    /\ UNCHANGED extractors
OSExtractCall(pool) == AbstractExtractCall("OperatingStatementExtractor", "operating_statement", pool)
LeaseExtractCall(pool) == AbstractExtractCall("LeaseExtractor", "lease", pool)

\* can_handle(content, filename): no instance state is read or written
Asked(kind, content, filename, ret) ==
    [op |-> "can_handle", kind |-> kind, filename |-> filename, content |-> content,
     result |-> ret, exc |-> "", raised |-> FALSE]
RentRollCanHandleCall ==
    /\ UNCHANGED services
    /\ \E content \in HandleContents, filename \in HandleFilenames :
          last' = Asked("rent_roll", content, filename, rent_roll_can_handle(content, filename))
    /\ UNCHANGED <<extractors, calls>>
PLCanHandleCall ==
    /\ UNCHANGED services
    /\ \E content \in HandleContents, filename \in HandleFilenames :
          last' = Asked("pl_statement", content, filename, pl_can_handle(content, filename))
    /\ UNCHANGED <<extractors, calls>>
\* cls().can_handle(content, filename) for a class that may be abstract
CanHandleOn(cls, kind, content, filename) ==
    The({ IF made.raised # "" THEN Raised("can_handle", kind, content, filename, made.raised)
          ELSE Asked(kind, content, filename, CanHandleOf(cls, content, filename)) :
          made \in {Instantiate(cls)} })
OSCanHandleCall ==
    /\ UNCHANGED services
    /\ \E content \in HandleContents, filename \in HandleFilenames :
          last' = CanHandleOn("OperatingStatementExtractor", "operating_statement",
                              content, filename)
    /\ UNCHANGED <<extractors, calls>>
LeaseCanHandleCall ==
    /\ UNCHANGED services
    /\ \E content \in HandleContents, filename \in HandleFilenames :
          last' = CanHandleOn("LeaseExtractor", "lease", content, filename)
    /\ UNCHANGED <<extractors, calls>>

\* DocumentProcessor().process_document(file_path)
Processed(file, returned) ==
    [op |-> "process_document", kind |-> "", filename |-> file.name, content |-> file,
     result |-> returned, exc |-> "", raised |-> FALSE]
ProcessDocumentCall ==
    /\ UNCHANGED services
    /\ \E file \in ProcessFiles :
          \E made \in {DocumentProcessorInit} :
              last' = IF made.raised # ""
                      THEN Raised("process_document", "", file, file.name, made.raised)
                      ELSE Processed(file, process_document(made.self, file).returned)
    /\ UNCHANGED <<extractors, calls>>

NextCanHandle ==
    RentRollCanHandleCall \/ PLCanHandleCall \/ OSCanHandleCall \/ LeaseCanHandleCall
SpecCanHandle == Init /\ [][NextCanHandle]_vars

NextPL == Construct \/ PLExtractCall(PLTexts)
SpecPL == Init /\ [][NextPL]_vars

NextRentRoll == Construct \/ RentRollExtractCall(RentRollTexts)
SpecRentRoll == Init /\ [][NextRentRoll]_vars

\* every extractor class, on a few documents of each kind
ExtractTexts ==
    {sample_pdf_content, <<>>,
     Chars(RentRollHeader \o "\n102     Acme      0              $3,500"),
     Chars(RentRollHeader),
     Chars("Revenue\nBase Rent   50,000\nExpenses\nUtilities   5,000\nNet Income"),
     Chars("Operating Statement\nPeriod from January 1, 2024 to March 31, 2024"),
     Chars("LEASE AGREEMENT between Landlord and Tenant")}
NextExtract ==
    \/ Construct
    \/ RentRollExtractCall(ExtractTexts)
    \/ PLExtractCall(ExtractTexts)
    \/ OSExtractCall(ExtractTexts)
    \/ LeaseExtractCall(ExtractTexts)
SpecExtract == Init /\ [][NextExtract]_vars

NextProcess == ProcessDocumentCall
SpecProcess == Init /\ [][NextProcess]_vars

(***************************************************************************)
(* BaseExtractor.validate called by itself, on the RentRollExtractor       *)
(* instance (the subclass that inherits it unchanged)                      *)
(***************************************************************************)
\* self.validate(): the instance it leaves and the bool it returns
RentRollValidate(self) ==
    The({[self |-> validated, returned |-> Len(validated.validation_errors) = 0] :
            validated \in {[self EXCEPT !.validation_errors =
                               validate(self, rent_roll_required_fields,
                                        rent_roll_format_rules, rent_roll_range_rules)]}})

\* the error lists a caller assigns to validation_errors, as
\* tests/test_base_extractor.py does before calling validate
AssignedErrors == {<<>>, <<"Error 1", "Error 2">>}
AssignErrors ==
    /\ UNCHANGED services
    /\ calls < MaxCalls
    /\ \E errors \in AssignedErrors :
          /\ extractors' = [extractors EXCEPT !.rent_roll.validation_errors = errors]
          /\ last' = [NoCall EXCEPT !.op = "assign"]
    /\ calls' = calls + 1

Validated(before, r) ==
    [op |-> "validate", kind |-> "rent_roll", filename |-> <<>>, content |-> <<>>,
     result |-> r.returned, exc |-> "", raised |-> FALSE, before |-> before]
RentRollValidateCall ==
    /\ UNCHANGED services
    /\ \E r \in {RentRollValidate(extractors.rent_roll)} :
          /\ extractors' = [extractors EXCEPT !.rent_roll = r.self]
          /\ last' = Validated(extractors.rent_roll.validation_errors, r)
    /\ UNCHANGED calls

ValidateTexts ==
    {sample_pdf_content, <<>>,
     Chars(RentRollHeader \o "\n102     Acme      0              $3,500"),
     Chars(RentRollHeader \o "\n104     Delta     1,200          $2,800"),
     Chars(RentRollHeader \o "\n103     Vacant    -200           $0"),
     Chars(RentRollHeader)}
NextValidate ==
    \/ Construct
    \/ RentRollExtractCall(ValidateTexts)
    \/ AssignErrors
    \/ RentRollValidateCall
SpecValidate == Init /\ [][NextValidate]_vars
(***************************************************************************)
(* FinancialAnalysis (services/financial_analysis.py).  A float is kept    *)
(* as an exact quotient in lowest terms, [num, den] with den > 0.          *)
(***************************************************************************)
RECURSIVE Gcd(_, _)
Gcd(a, b) == IF b = 0 THEN a ELSE Gcd(b, a % b)
Abs(n) == IF n < 0 THEN 0 - n ELSE n
\* n / d for d > 0
Q(n, d) == The({Ratio(n \div g, d \div g) : g \in {Gcd(Abs(n), d)}})
QInt(n) == Ratio(n, 1)
QMul(a, b) ==
    The({The({Q((a.num \div g1) * (b.num \div g2), (a.den \div g2) * (b.den \div g1)) :
              g2 \in {Gcd(Abs(b.num), a.den)}}) :
         g1 \in {Gcd(Abs(a.num), b.den)}})
\* a / b for b # 0
QDiv(a, b) ==
    QMul(a, IF b.num > 0 THEN Ratio(b.den, b.num) ELSE Ratio(0 - b.den, 0 - b.num))
QLess(a, b) == a.num * b.den < b.num * a.den
\* round(x, 2): to the nearest hundredth, a tie to the even one; the two
\* decimal digits are taken one at a time by long division
Round2(x) ==
    The({The({The({Q(IF 2 * rest > x.den \/ (2 * rest = x.den /\ cents % 2 = 1)
                     THEN cents + 1 ELSE cents, 100) :
                   cents \in {(x.num \div x.den) * 100 + tenths * 10
                                  + ((after * 10) \div x.den)},
                   rest \in {(after * 10) % x.den}}) :
              tenths \in {(((x.num % x.den) * 10) \div x.den)},
              after \in {((x.num % x.den) * 10) % x.den}}) :
         unused \in {0}})
\* Python truth of an Optional[float]: None and 0 are false
IsTrue(opt) == opt.some /\ opt.v.num # 0

\* \d+(?:,\d{3})*(?:\.\d{2})?
GroupedNumber ==
    Cat(<<Plus(DigitCls), Many(Cat(<<Lit(","), Rep(DigitCls, 3, 3)>>)),
          Opt(Cat(<<Lit("."), Rep(DigitCls, 2, 2)>>))>>)
\* float(text): Nothing where float() raises ValueError (a comma in text)
FloatOf(text) ==
    The({IF parsed.some THEN Some(Q(parsed.v, 100)) ELSE Nothing :
         parsed \in {ParseFloat(text)}})
NotComma(c) == c # ","

\* FinancialAnalysis.extract_numbers: re.findall gives the text of group 1
\* of each successive match; float() is applied to each as it is.  The
\* result is the list of floats, raised = TRUE when a float() raised.
RECURSIVE FindAll(_, _, _)
FindAll(r, s, from) ==
    The({IF ~m.ok THEN <<>> ELSE <<Group(m, s, 1)>> \o FindAll(r, s, m.end) :
         m \in {SearchFrom(r, s, from)}})
extract_numbers(text) ==
    The({IF \E k \in 1..Len(found) : ~FloatOf(found[k]).some
         THEN [raised |-> TRUE, numbers |-> <<>>]
         ELSE [raised |-> FALSE, numbers |-> [k \in 1..Len(found) |-> FloatOf(found[k]).v]] :
         found \in {FindAll(Cat(<<Opt(Lit("$")), Grp(1, GroupedNumber)>>), text, 1)}})

\* FinancialAnalysis.extract_currency_amount with re.IGNORECASE (the
\* patterns below are in lower case and meet the lower-cased text)
extract_currency_amount(text, pattern) ==
    The({IF m.ok THEN FloatOf(SelectSeq(Group(m, text, 1), NotComma)) ELSE Nothing :
         m \in {Search(pattern, Lower(text))}})

\* label[:|\s]+\$?(number)
Separators == Plus(Cls(WS \cup {":", "|"}))
Labelled(label) == Cat(<<label, Separators, Opt(Lit("$")), Grp(1, GroupedNumber)>>)

\* for pattern in patterns: the first amount found
RECURSIVE FirstAmount(_, _, _)
FirstAmount(text, patterns, k) ==
    IF k > Len(patterns) THEN Nothing
    ELSE The({IF result.some THEN result ELSE FirstAmount(text, patterns, k + 1) :
              result \in {extract_currency_amount(text, patterns[k])}})

find_noi(text) ==
    FirstAmount(text, <<Labelled(Lit("noi")), Labelled(Lit("net operating income")),
                        Labelled(Words(<<"operating", "income">>))>>, 1)
find_property_value(text) ==
    FirstAmount(text, <<Labelled(Words(<<"property", "value">>)),
                        Labelled(Words(<<"appraised", "value">>)),
                        Labelled(Words(<<"market", "value">>)),
                        Labelled(Words(<<"purchase", "price">>))>>, 1)
find_loan_amount(text) ==
    FirstAmount(text, <<Labelled(Words(<<"loan", "amount">>)),
                        Labelled(Words(<<"mortgage", "amount">>)),
                        Labelled(Words(<<"loan", "balance">>))>>, 1)
find_debt_service(text) ==
    FirstAmount(text, <<Labelled(Words(<<"debt", "service">>)),
                        Labelled(Words(<<"annual", "debt", "service">>)),
                        Labelled(Words(<<"annual", "debt", "payment">>))>>, 1)
find_gross_income(text) ==
    FirstAmount(text, <<Labelled(Words(<<"gross", "income">>)),
                        Labelled(Words(<<"gross", "potential", "income">>)),
                        Labelled(Words(<<"effective", "gross", "income">>))>>, 1)
find_total_expenses(text) ==
    FirstAmount(text, <<Labelled(Words(<<"total", "expenses">>)),
                        Labelled(Words(<<"operating", "expenses">>)),
                        Labelled(Words(<<"operating", "costs">>))>>, 1)

\* FinancialAnalysis.find_occupancy: label[:|\s]+(\d+(?:\.\d{1,2})?)\s*%
OccupancyPattern(label) ==
    Cat(<<Lit(label), Separators,
          Grp(1, Cat(<<Plus(DigitCls), Opt(Cat(<<Lit("."), Rep(DigitCls, 1, 2)>>))>>)),
          Star(SpaceCls), Lit("%")>>)
find_occupancy(text) ==
    FirstAmount(text, <<OccupancyPattern("occupancy"), OccupancyPattern("occupied"),
                        OccupancyPattern("leased")>>, 1)

\* what a calculate_* function returns, or the exception it raises
Value(v) == [raised |-> "", v |-> v]
Raises(exc) == [raised |-> exc, v |-> Zero]
\* round(numerator / denominator * scale, 2) for a denominator that is not
\* zero; the division raises TypeError for a numerator that is None
RoundedQuotient(numerator, denominator, scale) ==
    IF ~numerator.some THEN Raises("TypeError")
    ELSE Value(Round2(QMul(QDiv(numerator.v, denominator.v), QInt(scale))))

\* FinancialAnalysis.calculate_dscr, calculate_cap_rate, calculate_ltv,
\* calculate_expense_ratio, calculate_debt_yield; the arguments are
\* Optional floats
unguarded_dscr(noi, debt_service) ==
    IF ~debt_service.some \/ ~noi.some THEN Raises("TypeError")
    ELSE IF debt_service.v = Zero THEN Raises("ZeroDivisionError")
    ELSE RoundedQuotient(noi, debt_service, 1)
calculate_dscr(noi, debt_service) ==
    IF ~IsTrue(debt_service) THEN Value(Zero) ELSE RoundedQuotient(noi, debt_service, 1)
calculate_cap_rate(noi, property_value) ==
    IF ~IsTrue(property_value) THEN Value(Zero) ELSE RoundedQuotient(noi, property_value, 100)
calculate_ltv(loan_amount, property_value) ==
    IF ~IsTrue(property_value) THEN Value(Zero)
    ELSE RoundedQuotient(loan_amount, property_value, 100)
calculate_expense_ratio(total_expenses, gross_income) ==
    IF ~IsTrue(gross_income) THEN Value(Zero)
    ELSE RoundedQuotient(total_expenses, gross_income, 100)
calculate_debt_yield(noi, loan_amount) ==
    IF ~IsTrue(loan_amount) THEN Value(Zero) ELSE RoundedQuotient(noi, loan_amount, 100)

\* FinancialAnalysis.DEFAULTS
min_noi_threshold == 100000
min_value_threshold == 100000
property_value_multiplier == QInt(2)
loan_to_value_ratio == Q(7, 10)
debt_service_rate == Q(8, 100)
MonthsPerYear == 12

\* max(numbers)
MaxQ(numbers) ==
    numbers[CHOOSE k \in 1..Len(numbers) : \A j \in 1..Len(numbers) : ~QLess(numbers[k], numbers[j])]
\* FinancialAnalysis._estimate_from_numbers
estimate_from_numbers(numbers) ==
    IF numbers = <<>> THEN Nothing
    ELSE The({IF QLess(QInt(min_noi_threshold), max_val)
              THEN Some(QDiv(max_val, QInt(MonthsPerYear))) ELSE Nothing :
              max_val \in {MaxQ(numbers)}})
\* FinancialAnalysis._estimate_property_value
estimate_property_value(numbers) ==
    IF numbers = <<>> THEN Nothing
    ELSE The({IF QLess(QInt(min_value_threshold), max_val)
              THEN Some(QMul(max_val, property_value_multiplier)) ELSE Nothing :
              max_val \in {MaxQ(numbers)}})
\* FinancialAnalysis._estimate_loan_amount
estimate_loan_amount(property_value) ==
    IF ~IsTrue(property_value) THEN Nothing
    ELSE Some(QMul(property_value.v, loan_to_value_ratio))
\* FinancialAnalysis._estimate_debt_service
estimate_debt_service(loan_amount) ==
    IF ~IsTrue(loan_amount) THEN Nothing
    ELSE Some(QMul(loan_amount.v, debt_service_rate))

\* "x or 0"
OrZero(opt) == IF IsTrue(opt) THEN opt.v ELSE Zero

\* the dictionary analyze_document returns, from the figures after the
\* "or 0" lines
metrics_of(noi, property_value, loan_amount, debt_service, gross_income, total_expenses, occupancy) ==
    The({[noi |-> noi,
          capRate |-> IF cap_rate.num # 0 THEN QDiv(cap_rate, QInt(100)) ELSE Zero,
          dscr |-> calculate_dscr(Some(noi), Some(debt_service)).v,
          ltv |-> calculate_ltv(Some(loan_amount), Some(property_value)).v,
          occupancyRate |-> occupancy,
          grossIncome |-> gross_income,
          totalExpenses |-> total_expenses,
          expenseRatio |-> calculate_expense_ratio(Some(total_expenses), Some(gross_income)).v,
          debtYield |-> calculate_debt_yield(Some(noi), Some(loan_amount)).v,
          loanAmount |-> loan_amount,
          propertyValue |-> property_value,
          debtService |-> debt_service] :
         cap_rate \in {calculate_cap_rate(Some(noi), Some(property_value)).v}})

\* FinancialAnalysis.analyze_document: [raised, metrics]; re.search raises
\* TypeError for a text that is None, extract_numbers raises ValueError
Analyzed(metrics) == [raised |-> "", metrics |-> metrics]
AnalysisRaises(exc) == [raised |-> exc, metrics |-> EmptyDict]
analyze_document(ocr_result) ==
    The({
      IF text = None THEN AnalysisRaises("TypeError")
      ELSE The({
        IF (~IsTrue(found_noi) \/ ~found_value.some) /\ numbers.raised
        THEN AnalysisRaises("ValueError")
        ELSE The({The({The({The({
               Analyzed(metrics_of(
                   OrZero(noi), OrZero(property_value), OrZero(loan_amount),
                   OrZero(debt_service),
                   IF IsTrue(find_gross_income(text)) THEN find_gross_income(text).v
                   ELSE OrZero(noi),
                   OrZero(find_total_expenses(text)), OrZero(find_occupancy(text))))
               : debt_service \in {IF find_debt_service(text).some THEN find_debt_service(text)
                                   ELSE estimate_debt_service(loan_amount)}})
               : loan_amount \in {IF find_loan_amount(text).some THEN find_loan_amount(text)
                                  ELSE estimate_loan_amount(property_value)}})
               : property_value \in {IF found_value.some THEN found_value
                                     ELSE estimate_property_value(numbers.numbers)}})
               : noi \in {IF IsTrue(found_noi) THEN found_noi
                          ELSE estimate_from_numbers(numbers.numbers)}})
        : found_noi \in {find_noi(text)}, found_value \in {find_property_value(text)},
          numbers \in {extract_numbers(text)}})
      : text \in {Get(ocr_result, "text", <<>>)}})

\* FinancialAnalysis.generate_risk_flags: metrics.get(key, 0) against the
\* thresholds, the flags in the order they are appended
always_flag(raise_flag, flag) == <<flag>>
RiskFlag(raise_flag, flag) == IF raise_flag THEN <<flag>> ELSE <<>>
generate_risk_flags(metrics) ==
    RiskFlag(QLess(Get(metrics, "dscr", Zero), Q(125, 100)),
             "DSCR below 1.25 - potential cash flow issues")
    \o RiskFlag(QLess(Get(metrics, "occupancyRate", Zero), QInt(85)),
                "Occupancy below 85% - high vacancy risk")
    \o RiskFlag(QLess(QInt(75), Get(metrics, "ltv", Zero)), "LTV above 75% - high leverage")
    \o RiskFlag(QLess(QInt(60), Get(metrics, "expenseRatio", Zero)),
                "Expense ratio above 60% - high operating costs")
    \o RiskFlag(QLess(Get(metrics, "capRate", Zero), QInt(4)),
                "Cap rate below 4% - below market returns")

\* OCR results handed to analyze_document: process_document's dictionary,
\* with a text or (for an error result) without one
AnalysisTexts ==
    {"", "This document has minimal data",
     "Revenue: $1,234,567.89 and expenses: $500,000.00",
     "NOI: $500,000", "NOI: $500,000 Property Value: $5,000,000",
     "Total 250000 and 1200000", "NOI: 0 sales 1200000", "Occupancy: 94.25%",
     "Net Operating Income: $750,000.00 Purchase Price 9000000 Loan Amount: 6,000,000 Debt Service: 400000 Gross Income: 1,000,000 Total Expenses: 650,000.50 Leased: 80 %",
     "Operating Income | 90000 market value 100000.50",
     "NOI: 120000 Property Value: 4000000 Loan Amount: 3200000 Debt Service: 100000 Occupancy: 82%"}
OcrResults == {EmptyDict} \cup {[text |-> Chars(t)] : t \in AnalysisTexts}

\* arguments of the calculate_* functions: numerators, and denominators
\* among which None (absent) and 0
Numerators == {Nothing, Some(Zero), Some(QInt(850000)), Some(QInt(0 - 100)), Some(Q(15, 2))}
Denominators == {Nothing, Some(Zero), Some(QInt(350000)), Some(QInt(10000000))}
CalculateFunctions == {"calculate_dscr", "calculate_cap_rate", "calculate_ltv"}
Calculate(function, numerator, denominator) ==
    CASE function = "calculate_dscr" -> calculate_dscr(numerator, denominator)
      [] function = "calculate_cap_rate" -> calculate_cap_rate(numerator, denominator)
      [] function = "calculate_ltv" -> calculate_ltv(numerator, denominator)

\* metrics handed to generate_risk_flags: each figure below, at and above
\* its threshold
MetricsRecords ==
    {[dscr |-> d, occupancyRate |-> o, ltv |-> l, expenseRatio |-> e, capRate |-> c] :
        d \in {QInt(1), Q(125, 100), Q(3, 2)}, o \in {QInt(80), QInt(85), Q(945, 10)},
        l \in {QInt(70), QInt(75), Q(7501, 100)}, e \in {QInt(45), QInt(60), QInt(65)},
        c \in {Q(35, 10), QInt(4), Q(85, 10)}}

AnalyzeDocumentCall ==
    /\ UNCHANGED services
    /\ \E ocr_result \in OcrResults :
          \E r \in {analyze_document(ocr_result)} :
              last' = [op |-> "analyze_document", kind |-> "", filename |-> <<>>,
                       content |-> ocr_result, result |-> r.metrics, exc |-> r.raised,
                       raised |-> r.raised # ""]
    /\ UNCHANGED <<extractors, calls>>
CalculateCall ==
    /\ UNCHANGED services
    /\ \E function \in CalculateFunctions, numerator \in Numerators,
          denominator \in Denominators :
          \E r \in {Calculate(function, numerator, denominator)} :
              last' = [op |-> "calculate", kind |-> function, filename |-> <<>>,
                       content |-> <<numerator, denominator>>, result |-> r.v,
                       exc |-> r.raised, raised |-> r.raised # ""]
    /\ UNCHANGED <<extractors, calls>>
GenerateRiskFlagsCall ==
    /\ UNCHANGED services
    /\ \E metrics \in MetricsRecords :
          last' = [op |-> "generate_risk_flags", kind |-> "", filename |-> <<>>,
                   content |-> metrics, result |-> generate_risk_flags(metrics),
                   exc |-> "", raised |-> FALSE]
    /\ UNCHANGED <<extractors, calls>>
\* generate_risk_flags on the metrics analyze_document has just returned
FlagAnalysisCall ==
    /\ UNCHANGED services
    /\ last.op = "analyze_document"
    /\ ~last.raised
    /\ last' = [op |-> "generate_risk_flags", kind |-> "analysis", filename |-> <<>>,
                content |-> last.result, result |-> generate_risk_flags(last.result),
                exc |-> "", raised |-> FALSE]
    /\ UNCHANGED <<extractors, calls>>

NextFinancial ==
    AnalyzeDocumentCall \/ CalculateCall \/ GenerateRiskFlagsCall \/ FlagAnalysisCall
SpecFinancial == Init /\ [][NextFinancial]_vars

(***************************************************************************)
(* DocumentValidator.  An issue keeps its severity and field (the message  *)
(* and the suggested value are texts built from them); numbers are         *)
(* quotients, a confidence score is in hundredths.                         *)
(***************************************************************************)
ValidationIssue(severity, field) == [severity |-> severity, field |-> field]
\* ValidationResult(is_valid=True, issues=[], confidence_score=1.0)
NewValidationResult == [is_valid |-> TRUE, issues |-> <<>>, confidence_score |-> 100]
Severities(issues, severity) ==
    Cardinality({j \in 1..Len(issues) : issues[j].severity = severity})
\* ValidationResult.add_issue with _recalculate_validity
append_issue(result, issue) == [result EXCEPT !.issues = Append(@, issue)]
add_issue(result, issue) ==
    The({[appended EXCEPT !.is_valid = Severities(appended.issues, "critical") = 0] :
         appended \in {[result EXCEPT !.issues = Append(@, issue)]}})

\* the fields of DocumentValidator.RULES with "critical": True
critical_rules == {"occupancy_rate", "noi", "total_revenue", "total_expenses"}
RuleSeverity(field) == IF field \in critical_rules THEN "critical" ELSE "warning"
\* a number of the extractors, in hundredths, as a quotient
Hundredths(n) == Q(n, 100)
Norm(r) == Q(r.num, r.den)

\* DocumentValidator._validate_numeric_field; value, min_val and max_val are
\* Optional numbers
validate_numeric_field(result, field, value, min_val, max_val) ==
    IF ~value.some THEN add_issue(result, ValidationIssue(RuleSeverity(field), field))
    ELSE The({IF max_val.some /\ QLess(max_val.v, value.v)
              THEN add_issue(low, ValidationIssue(RuleSeverity(field), field))
              ELSE low :
              low \in {IF min_val.some /\ QLess(value.v, min_val.v)
                       THEN add_issue(result, ValidationIssue(RuleSeverity(field), field))
                       ELSE result}})
\* consecutive _validate_numeric_field calls, one per <<field, value, min, max>>
RECURSIVE validate_numeric_fields(_, _)
validate_numeric_fields(result, checks) ==
    IF checks = <<>> THEN result
    ELSE validate_numeric_fields(
             validate_numeric_field(result, Head(checks)[1], Head(checks)[2],
                                    Head(checks)[3], Head(checks)[4]),
             Tail(checks))

\* DocumentValidator._validate_tenant_record; index counts from 0
TenantField(index, name) == "tenant_" \o ToString(index) \o "_" \o name
validate_tenant_record(result, tenant, index) ==
    The({The({IF Get(tenant, "current_rent", 0) < 0
              THEN add_issue(sized, ValidationIssue("critical", TenantField(index, "rent")))
              ELSE sized :
              sized \in {IF Get(tenant, "square_footage", 0) <= 0
                         THEN add_issue(named, ValidationIssue("critical",
                                            TenantField(index, "square_footage")))
                         ELSE named}}) :
         named \in {IF Get(tenant, "tenant", <<>>) = <<>> /\ Get(tenant, "occupied", TRUE)
                    THEN add_issue(result, ValidationIssue("warning",
                                       TenantField(index, "name")))
                    ELSE result}})
RECURSIVE validate_tenant_records(_, _, _)
validate_tenant_records(result, tenants, index) ==
    IF index >= Len(tenants) THEN result
    ELSE validate_tenant_records(validate_tenant_record(result, tenants[index + 1], index),
                                 tenants, index + 1)

\* DocumentValidator._calculate_confidence, in hundredths
Max(a, b) == IF a > b THEN a ELSE b
Min(a, b) == IF a < b THEN a ELSE b
Penalised(issues) ==
    100 - 10 * Severities(issues, "critical") - 5 * Severities(issues, "warning")
        - Severities(issues, "info")
calculate_confidence(issues, data_points) ==
    IF data_points = 0 THEN 0 ELSE Max(0, Min(100, Penalised(issues)))
WithConfidence(result, data_points) ==
    [result EXCEPT !.confidence_score = calculate_confidence(result.issues, data_points)]

\* DocumentValidator.validate_rent_roll on the data of a rent roll extraction
validate_rent_roll(data) ==
    IF Len(Get(data, "tenants", <<>>)) = 0
    THEN add_issue(NewValidationResult, ValidationIssue("critical", "tenants"))
    ELSE The({WithConfidence(
                  validate_tenant_records(
                      validate_numeric_fields(NewValidationResult,
                          <<<<"total_units", Some(QInt(Get(summary, "total_units", 0))),
                              Some(Zero), Nothing>>,
                            <<"occupancy_rate", Some(Norm(Get(summary, "occupancy_rate", Zero))),
                              Some(Zero), Some(QInt(100))>>,
                            <<"total_monthly_rent",
                              Some(Hundredths(Get(summary, "total_monthly_rent", 0))),
                              Some(Zero), Nothing>> >>),
                      data.tenants, 0),
                  Len(data.tenants)) :
              summary \in {Get(data, "summary", EmptyDict)}})

\* DocumentValidator.validate_pl_statement on the data of a P&L extraction
validate_pl_statement(data) ==
    The({The({The({The({WithConfidence(
        IF QLess(QInt(80), Norm(Get(summary, "expense_ratio", Zero)))
        THEN add_issue(ranged, ValidationIssue("warning", "expense_ratio"))
        ELSE ranged,
        Len(Get(Get(data, "revenue", EmptyDict), "items", <<>>)))
        : ranged \in {validate_numeric_field(compared, "expense_ratio",
                          Some(Norm(Get(summary, "expense_ratio", Zero))),
                          Some(Zero), Some(QInt(100)))}})
        : compared \in {IF Get(summary, "total_expenses", 0) > Get(summary, "gross_income", 0)
                        THEN add_issue(checked, ValidationIssue("critical", "noi"))
                        ELSE checked}})
        : checked \in {validate_numeric_fields(NewValidationResult,
              <<<<"gross_income", Some(Hundredths(Get(summary, "gross_income", 0))),
                  Some(Zero), Nothing>>,
                <<"total_expenses", Some(Hundredths(Get(summary, "total_expenses", 0))),
                  Some(Zero), Nothing>>,
                <<"noi", Some(Hundredths(Get(summary, "noi", 0))), Some(Zero), Nothing>> >>)}})
        : summary \in {Get(data, "summary", EmptyDict)}})

\* the if / elif pairs of validate_financial_metrics: critical beyond the
\* outer limit, warning beyond the inner one
Graded(result, field, critical, warning) ==
    IF critical THEN add_issue(result, ValidationIssue("critical", field))
    ELSE IF warning THEN add_issue(result, ValidationIssue("warning", field))
    ELSE result
\* DocumentValidator.validate_financial_metrics
validate_financial_metrics(metrics) ==
    The({Graded(Graded(Graded(checked, "dscr", QLess(dscr, QInt(1)), QLess(dscr, Q(125, 100))),
                       "ltv", QLess(QInt(80), ltv), QLess(QInt(75), ltv)),
                "occupancyRate", QLess(occupancy, QInt(70)), QLess(occupancy, QInt(85)))
         : checked \in {validate_numeric_fields(NewValidationResult,
               <<<<"noi", Some(Get(metrics, "noi", Zero)), Some(Zero), Nothing>>,
                 <<"dscr", Some(Get(metrics, "dscr", Zero)), Some(Zero), Some(QInt(10))>>,
                 <<"capRate", Some(Get(metrics, "capRate", Zero)), Some(Zero), Some(QInt(20))>>,
                 <<"ltv", Some(Get(metrics, "ltv", Zero)), Some(Zero), Some(QInt(100))>>,
                 <<"occupancyRate", Some(Get(metrics, "occupancyRate", Zero)),
                   Some(Zero), Some(QInt(100))>> >>)},
           dscr \in {Get(metrics, "dscr", Zero)},
           ltv \in {Get(metrics, "ltv", Zero)},
           occupancy \in {Get(metrics, "occupancyRate", Zero)}})

\* abs(a - b)
AbsDiff(a, b) == Q(Abs(a.num * b.den - b.num * a.den), a.den * b.den)
\* DocumentValidator.validate_cross_field_consistency (pl_data is not read)
validate_cross_field_consistency(rent_roll_data, pl_data, financial_metrics) ==
    The({IF rent_roll_occupancy.num # 0 /\ metric_occupancy.num # 0
            /\ QLess(QInt(10), AbsDiff(rent_roll_occupancy, metric_occupancy))
         THEN add_issue(NewValidationResult, ValidationIssue("warning", "occupancyRate"))
         ELSE NewValidationResult
         : rent_roll_occupancy \in
               {Norm(Get(Get(rent_roll_data, "summary", EmptyDict), "occupancy_rate", Zero))},
           metric_occupancy \in {Get(financial_metrics, "occupancyRate", Zero)}})

\* data handed to the validator: what the extractors return for a document,
\* and an empty dictionary
ValidatedRentRollBodies ==
    {"", "\n101     Corp      1,500          $-500", "\n102     Acme      0              $3,500",
     "\n103     Vacant    -200           $0",
     "\n104     Delta     1,200          $2,800\n103     Vacant    1,000          $0",
     "\n104     Delta     1,200          $2,800\n102     Acme      0              $3,500"}
\* a rent roll whose summary reports more occupied than total area
OverfullRentRoll ==
    [tenants |-> <<[unit |-> Chars("104"), tenant |-> Chars("Delta"),
                    square_footage |-> Units(1200), current_rent |-> Units(2800),
                    occupied |-> TRUE]>>,
     summary |-> [total_units |-> 1, occupancy_rate |-> Ratio(105, 1),
                  total_monthly_rent |-> Units(2800)]]
ValidatedRentRolls ==
    {EmptyDict, OverfullRentRoll}
    \cup {RentRollExtract(NewExtractor, content).result.data :
             content \in {sample_pdf_content, <<>>}
                          \cup {Chars(RentRollHeader \o b) : b \in ValidatedRentRollBodies}}
ValidatedStatements ==
    {EmptyDict} \cup {PLExtract(NewExtractor, content).result.data : content \in PLTexts}
\* financial metrics around the limits of validate_financial_metrics
ValidatedMetrics ==
    {EmptyDict}
    \cup {[noi |-> n, dscr |-> d, capRate |-> QInt(6), ltv |-> l, occupancyRate |-> o] :
             n \in {QInt(500000), QInt(0 - 100)},
             d \in {Q(9, 10), QInt(1), Q(12, 10), Q(125, 100), Q(3, 2)},
             l \in {QInt(75), QInt(78), QInt(80), Q(801, 10), QInt(105)},
             o \in {QInt(60), QInt(70), Q(845, 10), QInt(85), QInt(105)}}
\* rent rolls and metric occupancies compared by the cross-field validation
CrossRentRollTexts ==
    {<<>>,
     Chars(RentRollHeader \o "\n104     Delta     1,200          $2,800"),
     Chars(RentRollHeader \o "\n103     Vacant    1,000          $0"),
     Chars(RentRollHeader
           \o "\n104     Delta     1,200          $2,800\n103     Vacant    1,000          $0"),
     Chars(RentRollHeader
           \o "\n104     Delta     6,000          $9,000\n105     Warehouse 7,000          $8,000")}
CrossOccupancies ==
    {Zero, QInt(45), Q(4454, 100), Q(6454, 100), Q(6455, 100), QInt(90), QInt(95), QInt(100)}

ValidatorReturned(op, content, result) ==
    [op |-> op, kind |-> "", filename |-> <<>>, content |-> content, result |-> result,
     exc |-> "", raised |-> FALSE]
ValidateRentRollCall ==
    /\ UNCHANGED services
    /\ \E data \in ValidatedRentRolls :
          last' = ValidatorReturned("validate_rent_roll", data, validate_rent_roll(data))
    /\ UNCHANGED <<extractors, calls>>
ValidatePLStatementCall ==
    /\ UNCHANGED services
    /\ \E data \in ValidatedStatements :
          last' = ValidatorReturned("validate_pl_statement", data, validate_pl_statement(data))
    /\ UNCHANGED <<extractors, calls>>
ValidateFinancialMetricsCall ==
    /\ UNCHANGED services
    /\ \E metrics \in ValidatedMetrics :
          last' = ValidatorReturned("validate_financial_metrics", metrics,
                                    validate_financial_metrics(metrics))
    /\ UNCHANGED <<extractors, calls>>
ValidateCrossFieldCall ==
    /\ UNCHANGED services
    /\ \E content \in CrossRentRollTexts :
          \E rent_roll_data \in {RentRollExtract(NewExtractor, content).result.data} :
            \E occupancy \in CrossOccupancies :
              last' = ValidatorReturned("validate_cross_field_consistency",
                          [rent_roll_data |-> rent_roll_data,
                           financial_metrics |-> [occupancyRate |-> occupancy]],
                          validate_cross_field_consistency(
                              rent_roll_data, EmptyDict, [occupancyRate |-> occupancy]))
    /\ UNCHANGED <<extractors, calls>>

NextValidator ==
    \/ ValidateRentRollCall
    \/ ValidatePLStatementCall
    \/ ValidateFinancialMetricsCall
    \/ ValidateCrossFieldCall
SpecValidator == Init /\ [][NextValidator]_vars
\* validate_financial_metrics alone
NextMetricsValidator == ValidateFinancialMetricsCall
SpecMetricsValidator == Init /\ [][NextMetricsValidator]_vars

(***************************************************************************)
(* upload_document of main.py and of api/documents.py.  Both modules build *)
(* their DocumentProcessor when they are imported.                         *)
(***************************************************************************)
\* the record upload_document inserts in the documents collection
StoredDocument(file, result) ==
    [filename |-> file.name, processing_result |-> result,
     status |-> IF result.status = "success" THEN "completed" ELSE "error"]
HTTPError(status_code) ==
    [raised |-> "HTTPException", status_code |-> status_code, documents |-> <<>>]
Uploaded(doc) == [raised |-> "", status_code |-> 200, documents |-> <<doc>>]
\* main.upload_document with the module's processor: the size and type
\* checks, process_document, analyze_document on a success, insert_one
main_upload_document(processor, file) ==
    IF file.large THEN HTTPError(413)
    ELSE IF Extension(file.name) \notin SupportedExtensions THEN HTTPError(400)
    ELSE The({IF result.status = "success"
                 /\ analyze_document([text |-> file.text]).raised # ""
              THEN HTTPError(500)
              ELSE Uploaded(StoredDocument(file, result)) :
              result \in {process_document(processor, file).returned}})
\* api.documents.upload_document with the module's processor
api_upload_document(processor, file) ==
    Uploaded(StoredDocument(file, process_document(processor, file).returned))

\* uploads: the file has just been written, so it exists
UploadedFiles ==
    {[exists |-> TRUE, name |-> n, text |-> t, large |-> l] :
        n \in HandleFilenames \cup {Chars("notes.txt")},
        t \in HandleContents \cup {None}, l \in BOOLEAN}
UploadReturned(handler, file, r) ==
    [op |-> "upload_document", kind |-> handler, filename |-> file.name, content |-> file,
     result |-> r, exc |-> r.raised, raised |-> r.raised # ""]
\* POST /api/v1/documents/upload served by main.py
MainUploadCall ==
    /\ UNCHANGED services
    /\ \E file \in UploadedFiles :
          \E made \in {DocumentProcessorInit} :
              last' = IF made.raised # ""
                      THEN Raised("upload_document", "main", file, file.name, made.raised)
                      ELSE UploadReturned("main", file, main_upload_document(made.self, file))
    /\ UNCHANGED <<extractors, calls>>
\* POST /upload served by the router of api/documents.py
ApiUploadCall ==
    /\ UNCHANGED services
    /\ \E file \in UploadedFiles :
          \E made \in {DocumentProcessorInit} :
              last' = IF made.raised # ""
                      THEN Raised("upload_document", "api", file, file.name, made.raised)
                      ELSE UploadReturned("api", file, api_upload_document(made.self, file))
    /\ UNCHANGED <<extractors, calls>>
NextUpload == MainUploadCall \/ ApiUploadCall
SpecUpload == Init /\ [][NextUpload]_vars

\* between two extract calls the caller puts the transient state of the
\* instance back to what __init__ sets: extracted_data, confidence_scores
\* and validation_errors (market_data is not among them); the caller keeps
\* the text and the first result
reset_transient(self) ==
    [self EXCEPT !.extracted_data = EmptyDict, !.confidence_scores = {},
                 !.validation_errors = <<>>]
ResetCall ==
    /\ UNCHANGED services
    /\ last.op = "extract"
    /\ ~last.raised
    /\ last.kind \in DOMAIN extractors
    /\ extractors' = [extractors EXCEPT ![last.kind] = reset_transient(@)]
    /\ last' = [last EXCEPT !.op = "reset"]
    /\ UNCHANGED calls
NextRepeat ==
    \/ Construct
    \/ RentRollExtractCall(ExtractTexts)
    \/ PLExtractCall(ExtractTexts)
    \/ OSExtractCall(ExtractTexts)
    \/ LeaseExtractCall(ExtractTexts)
    \/ ResetCall
SpecRepeat == Init /\ [][NextRepeat]_vars


(***************************************************************************)
(* One DocumentProcessor over a sequence of documents: the instances of    *)
(* self.extractors are made once, in __init__, and process_document runs   *)
(* extract on them as they are.                                            *)
(***************************************************************************)
\* the instances on which process_document calls extract, each as it is when
\* extract is entered (the loop of try_each_extractor, which a KeyError ends)
RECURSIVE extract_entries(_, _, _, _)
extract_entries(instances, k, text_content, filename) ==
    IF k > Len(instances) THEN <<>>
    ELSE IF ~Truthy(CanHandleOf(instances[k].cls, text_content, filename))
    THEN extract_entries(instances, k + 1, text_content, filename)
    ELSE The({<<instances[k].self>>
              \o (IF r.result.success /\ "confidence_scores" \notin DOMAIN r.result
                  THEN <<>>
                  ELSE extract_entries([instances EXCEPT ![k].self = r.self], k + 1,
                                       text_content, filename)) :
              r \in {ExtractOf(instances[k].cls, instances[k].self, text_content)}})
\* whether process_document reaches the extractor loop for the file
ReachesExtractors(file) ==
    /\ file.exists
    /\ Extension(file.name) \in SupportedExtensions
    /\ file.text # None /\ file.text # <<>>
\* process_document on each file of a sequence, on the same processor: per
\* file, what it returned and the instances extract was entered with
RECURSIVE process_documents(_, _)
process_documents(self, files) ==
    IF files = <<>> THEN <<>>
    ELSE The({<<[returned |-> done.returned,
                 entered |-> IF ReachesExtractors(Head(files))
                             THEN extract_entries(self.extractors, 1, Head(files).text,
                                                  Head(files).name)
                             ELSE <<>>]>>
              \o process_documents([self EXCEPT !.extractors = done.extractors], Tail(files)) :
              done \in {process_document(self, Head(files))}})

\* sequences of one or two documents handed to the processor
SequenceNames == {Chars("document.pdf"), Chars("Rent_Roll_2024.pdf"),
                  Chars("profit_loss_income.pdf")}
SequenceTexts ==
    {sample_pdf_content,
     Chars("This is a regular document without any relevant terms."),
     Chars(RentRollHeader \o "\n102     Acme      0              $3,500"),
     Chars("Revenue\nBase Rent   50,000\nExpenses\nUtilities   5,000\nNet Income")}
SequenceFiles ==
    {[exists |-> TRUE, name |-> n, text |-> t] : n \in SequenceNames, t \in SequenceTexts}
FileSequences ==
    {<<f>> : f \in SequenceFiles} \cup {<<f, g>> : f \in SequenceFiles, g \in SequenceFiles}
ProcessSequenceCall ==
    /\ UNCHANGED services
    /\ \E files \in FileSequences :
          \E made \in {DocumentProcessorInit} :
              last' = IF made.raised # ""
                      THEN Raised("process_documents", "", files, <<>>, made.raised)
                      ELSE [op |-> "process_documents", kind |-> "", filename |-> <<>>,
                            content |-> files,
                            result |-> process_documents(made.self, files),
                            exc |-> "", raised |-> FALSE]
    /\ UNCHANGED <<extractors, calls>>
NextSequence == ProcessSequenceCall
SpecSequence == Init /\ [][NextSequence]_vars

(***************************************************************************)
(* BaseExtractor.calculate_field_confidence.  A value is None, a text or   *)
(* a number; it carries str(value), which the format rules are matched     *)
(* against.  Scores are quotients.                                         *)
(***************************************************************************)
NoValue == [kind |-> "none", text |-> <<>>, v |-> Zero]
TextValue(text) == [kind |-> "str", text |-> Chars(text), v |-> Zero]
NumberValue(text, v) == [kind |-> "number", text |-> Chars(text), v |-> v]
\* long division: n more decimal digits of rem / den after the digits q
RECURSIVE LongDivision(_, _, _, _)
LongDivision(q, rem, den, n) ==
    IF n = 0 THEN <<q, rem>>
    ELSE LongDivision(q * 10 + ((rem * 10) \div den), (rem * 10) % den, den, n - 1)
\* round(x, 3), a tie to the even digit
Round3(x) ==
    The({Q(IF 2 * d[2] > x.den \/ (2 * d[2] = x.den /\ d[1] % 2 = 1) THEN d[1] + 1 ELSE d[1],
           1000) :
         d \in {LongDivision(x.num \div x.den, x.num % x.den, x.den, 3)}})
QAdd(a, b) == Q(a.num * b.den + b.num * a.den, a.den * b.den)
QMin(a, b) == IF QLess(b, a) THEN b ELSE a
QMax(a, b) == IF QLess(a, b) THEN b ELSE a
One1 == QInt(1)
\* BaseExtractor._calculate_base_confidence
calculate_base_confidence(field, value) == IF value.kind = "none" THEN Zero ELSE One1
\* BaseExtractor._calculate_format_confidence, for the rules of the subclass
calculate_format_confidence(format_rules, field, value) ==
    IF \E k \in 1..Len(format_rules) : format_rules[k][1] = field
    THEN IF MatchAt(format_rules[CHOOSE k \in 1..Len(format_rules) :
                                    format_rules[k][1] = field][2], value.text, 1).ok
         THEN One1 ELSE Zero
    ELSE One1
\* BaseExtractor._calculate_range_confidence; expected_range is None (<<>>)
\* or <<min_val, max_val>>; a range of width 0 divides by zero, which the
\* except clause turns into 0.0
calculate_range_confidence(field, value, expected_range) ==
    IF expected_range = <<>> \/ value.kind # "number" THEN One1
    ELSE IF ~QLess(value.v, expected_range[1]) /\ ~QLess(expected_range[2], value.v) THEN One1
    ELSE IF expected_range[1] = expected_range[2] THEN Zero
    ELSE QMax(Zero,
              QAdd(One1, QDiv(QMin(AbsDiff(value.v, expected_range[1]),
                                   AbsDiff(value.v, expected_range[2])),
                              QAdd(expected_range[1], QMul(QInt(0 - 1), expected_range[2])))))
\* BaseExtractor._calculate_market_alignment; a market value of 0 divides by
\* zero, which the except clause turns into 0.0
calculate_market_alignment(self, field, value) ==
    IF self.market_data = EmptyDict THEN One1
    ELSE IF field \in DOMAIN self.market_data /\ value.kind = "number"
    THEN IF self.market_data[field].num = 0 THEN Zero
         ELSE QMax(Zero, QAdd(One1, QMul(QInt(0 - 1),
                                         QDiv(AbsDiff(value.v, self.market_data[field]),
                                              self.market_data[field]))))
    ELSE One1
\* BaseExtractor.calculate_field_confidence
calculate_field_confidence(self, format_rules, field, value, expected_range) ==
    IF value.kind = "none" THEN Zero
    ELSE Round3(QAdd(QAdd(QMul(calculate_base_confidence(field, value), Q(3, 10)),
                          QMul(calculate_format_confidence(format_rules, field, value),
                               Q(2, 10))),
                     QAdd(QMul(calculate_range_confidence(field, value, expected_range),
                               Q(2, 10)),
                          QMul(calculate_market_alignment(self, field, value), Q(3, 10)))))

\* fields, values, ranges and market data offered to calculate_field_confidence
\* on a RentRollExtractor
ConfidenceFields == {"unit", "square_footage", "current_rent", "tenant"}
ConfidenceValues ==
    {NoValue, TextValue("A1"), TextValue("A 1"), NumberValue("50", QInt(50)),
     NumberValue("1500.5", Q(15005, 10)), NumberValue("1000", QInt(1000)),
     NumberValue("3000", QInt(3000)), NumberValue("-20", QInt(0 - 20))}
ConfidenceRanges ==
    {<<>>, <<QInt(100), QInt(1000)>>, <<Zero, QInt(2000)>>, <<QInt(100), QInt(100)>>}
ConfidenceMarketData ==
    {EmptyDict, fetch_market_data("retail", "unknown"), [current_rent |-> QInt(1000)],
     [current_rent |-> Zero, square_footage |-> QInt(800)]}
FieldConfidenceCall ==
    /\ UNCHANGED services
    /\ \E field \in ConfidenceFields, value \in ConfidenceValues,
          expected_range \in ConfidenceRanges, market_data \in ConfidenceMarketData :
          last' = [op |-> "calculate_field_confidence", kind |-> field, filename |-> <<>>,
                   content |-> [value |-> value, expected_range |-> expected_range,
                                market_data |-> market_data],
                   result |-> calculate_field_confidence(
                                  [extractors.rent_roll EXCEPT !.market_data = market_data],
                                  rent_roll_format_rules, field, value, expected_range),
                   exc |-> "", raised |-> FALSE]
    /\ UNCHANGED <<extractors, calls>>
NextConfidence == FieldConfidenceCall
SpecConfidence == Init /\ [][NextConfidence]_vars

(***************************************************************************)
(* RateLimitMiddleware.check_rate_limit of main.py, called from several    *)
(* threads.  Times are whole ticks of time.time().                         *)
(***************************************************************************)
\* RateLimitMiddleware(app, requests, seconds), scaled down from 100 and 60
requests == 2
seconds == 2
\* the last clock reading and the number of calls of a behaviour
MaxClock == 4
MaxRequests == 4

\* [t for t in client_requests if t > window_start]
RECURSIVE After(_, _)
After(client_requests, window_start) ==
    IF client_requests = <<>> THEN <<>>
    ELSE IF Head(client_requests) > window_start
    THEN <<Head(client_requests)>> \o After(Tail(client_requests), window_start)
    ELSE After(Tail(client_requests), window_start)
\* the block of check_rate_limit under the lock: the client's list
\* afterwards and whether the request is allowed
check_rate_limit(client_requests, now) ==
    The({IF Len(kept) >= requests THEN [client_requests |-> kept, allowed |-> FALSE]
         ELSE [client_requests |-> Append(kept, now), allowed |-> TRUE]
         : kept \in {After(client_requests, now - seconds)}})

\* time passes
Tick ==
    /\ limiter.clock < MaxClock
    /\ limiter' = [limiter EXCEPT !.clock = @ + 1]
    /\ UNCHANGED <<pipeline, storage, migrations>>
\* a thread enters check_rate_limit(client_id): now = time.time()
ReadTime(t) ==
    /\ limiter.pc[t] = "idle"
    /\ limiter.started < MaxRequests
    /\ \E client_id \in Clients :
          limiter' = [limiter EXCEPT !.pc[t] = "acquire", !.now[t] = limiter.clock,
                                     !.client[t] = client_id, !.started = @ + 1]
    /\ UNCHANGED <<pipeline, storage, migrations>>
\* with rate_limit_lock: the thread waits until the lock is free
Acquire(t) ==
    /\ limiter.pc[t] = "acquire"
    /\ limiter.lock = 0
    /\ limiter' = [limiter EXCEPT !.pc[t] = "locked", !.lock = t]
    /\ UNCHANGED <<pipeline, storage, migrations>>
\* the block under the lock, the release and the return
Locked(t) ==
    /\ limiter.pc[t] = "locked"
    /\ \E r \in {check_rate_limit(limiter.store[limiter.client[t]], limiter.now[t])} :
          \E request \in {[client |-> limiter.client[t], now |-> limiter.now[t]]} :
              limiter' = [limiter EXCEPT
                             !.store[limiter.client[t]] = r.client_requests,
                             !.allowed = IF r.allowed THEN Append(@, request) ELSE @,
                             !.rejected = IF r.allowed THEN @ ELSE Append(@, request),
                             !.lock = 0, !.pc[t] = "idle"]
    /\ UNCHANGED <<pipeline, storage, migrations>>

NextRateLimit ==
    \/ Tick
    \/ \E t \in Threads : ReadTime(t)
    \/ \E t \in Threads : Acquire(t)
    \/ \E t \in Threads : Locked(t)
SpecRateLimit == Init /\ [][NextRateLimit]_vars

(***************************************************************************)
(* upload_document of main.py and FileCleanupService.cleanup_orphaned_files*)
(* as coroutines on one event loop: a step runs from one await to the next.*)
(* The steps of upload_document are those of a module that holds a         *)
(* processor.                                                              *)
(***************************************************************************)
MaxUploads == 3
MaxSweeps == 2
UploadNames == {"a.pdf", "b.xlsx", "notes.txt"}
\* os.path.splitext(file.filename)[1].lower() in [".pdf", ".docx", ".xlsx"]
IsSupported(filename) == filename \in {"a.pdf", "b.xlsx"}
\* os.path.join(os.path.dirname(__file__), "uploads"), an absolute path, and
\* CleanupConfig's default Path("backend/uploads"): two spellings of the
\* same directory
MainUploadsDir == "/app/backend/uploads"
DefaultUploadsDir == "backend/uploads"
\* os.path.join(uploads_dir, filename), str(file_path)
PathOf(uploads_dir, filename) == <<uploads_dir, filename>>

\* upload_document up to the first await after the file is written: content
\* read, extension checked (HTTP 400 leaves nothing behind), file saved
SaveFile(h) ==
    /\ storage.handler[h].pc = "idle"
    /\ storage.begun.uploads < MaxUploads
    /\ \E filename \in UploadNames :
          storage' = [storage EXCEPT
              !.begun.uploads = @ + 1,
              !.files = IF IsSupported(filename) THEN @ \cup {filename} ELSE @,
              !.handler[h] = IF IsSupported(filename)
                             THEN [pc |-> "processing", filename |-> filename]
                             ELSE [pc |-> "idle", filename |-> ""]]
    /\ UNCHANGED <<pipeline, limiter, migrations>>
\* await processor.process_document, await analyze_document: the status of
\* the record to insert, or an exception that ends the request (HTTP 500)
ProcessSaved(h) ==
    /\ storage.handler[h].pc = "processing"
    /\ \E outcome \in {"completed", "error", "raised"} :
          storage' = [storage EXCEPT
              !.handler[h] = IF outcome = "raised" THEN [pc |-> "idle", filename |-> ""]
                             ELSE [pc |-> outcome, filename |-> @.filename]]
    /\ UNCHANGED <<pipeline, limiter, migrations>>
\* await MongoDB.db.documents.insert_one(doc), and the response
InsertRecord(h) ==
    /\ storage.handler[h].pc \in {"completed", "error"}
    /\ storage' = [storage EXCEPT
           !.records = Append(@, [filename |-> storage.handler[h].filename,
                                  path |-> PathOf(MainUploadsDir, storage.handler[h].filename),
                                  status |-> storage.handler[h].pc]),
           !.handler[h] = [pc |-> "idle", filename |-> ""]]
    /\ UNCHANGED <<pipeline, limiter, migrations>>

\* cleanup_orphaned_files: the find over db.documents fills document_paths
FindPaths ==
    /\ storage.sweep.pc = "idle"
    /\ storage.begun.sweeps < MaxSweeps
    /\ \E uploads_dir \in {DefaultUploadsDir, MainUploadsDir} :
          storage' = [storage EXCEPT
              !.begun.sweeps = @ + 1,
              !.sweep = [pc |-> "iterdir", uploads_dir |-> uploads_dir,
                         document_paths |-> {storage.records[k].path :
                                                k \in 1..Len(storage.records)}]]
    /\ UNCHANGED <<pipeline, limiter, migrations>>
\* the files str(file_path) of which is not in document_paths
Orphaned(files, uploads_dir, document_paths) ==
    {f \in files : PathOf(uploads_dir, f) \notin document_paths}
\* what is known of a file when it is unlinked: whether a record refers to
\* it, whether an upload that wrote it is still in progress
Unlinked(f) ==
    [filename |-> f,
     referred |-> \E k \in 1..Len(storage.records) : storage.records[k].filename = f,
     uploading |-> \E h \in Handlers : storage.handler[h].filename = f]
\* the loop over uploads_dir.iterdir(), which holds no await
UnlinkOrphans ==
    /\ storage.sweep.pc = "iterdir"
    /\ \E orphans \in {Orphaned(storage.files, storage.sweep.uploads_dir,
                                  storage.sweep.document_paths)} :
          storage' = [storage EXCEPT
              !.files = @ \ orphans,
              !.removed = @ \cup {Unlinked(f) : f \in orphans},
              !.sweep = [pc |-> "idle", uploads_dir |-> "", document_paths |-> {}]]
    /\ UNCHANGED <<pipeline, limiter, migrations>>

NextCleanup ==
    \/ \E h \in Handlers : SaveFile(h)
    \/ \E h \in Handlers : ProcessSaved(h)
    \/ \E h \in Handlers : InsertRecord(h)
    \/ FindPaths
    \/ UnlinkOrphans
SpecCleanup == Init /\ [][NextCleanup]_vars

(***************************************************************************)
(* MigrationManager of db/migrations.py                                    *)
(***************************************************************************)
\* the versions of MIGRATIONS, in order
MIGRATIONS == <<"001", "002", "003", "004">>
Versions == {MIGRATIONS[k] : k \in 1..Len(MIGRATIONS)}
IndexOfVersion(version) == CHOOSE k \in 1..Len(MIGRATIONS) : MIGRATIONS[k] = version
\* migration.version > target_version, for versions of MIGRATIONS (strings
\* of three digits compare as their positions do)
Later(version, target_version) == IndexOfVersion(version) > IndexOfVersion(target_version)
InList(version, list) == \E k \in 1..Len(list) : list[k] = version
\* list.remove(version), delete_one({"version": version}): the first
\* occurrence goes
WithoutFirst(list, version) ==
    IF ~InList(version, list) THEN list
    ELSE The({SubSeq(list, 1, k - 1) \o SubSeq(list, k + 1, Len(list))
              : k \in {MinOf({j \in 1..Len(list) : list[j] = version})}})
\* the applied_migrations property: an empty cache is loaded from the
\* collection first
applied_migrations(self) ==
    IF self.cache = <<>> THEN [self EXCEPT !.cache = self.records] ELSE self

\* MigrationManager.run_migrations from the k-th migration on; target_version
\* is an Optional version, up_fails are the versions whose up raises
RECURSIVE run_migrations(_, _, _, _)
run_migrations(self, k, target_version, up_fails) ==
    IF k > Len(MIGRATIONS) THEN self
    ELSE The({
        IF InList(MIGRATIONS[k], loaded.cache) THEN
            run_migrations(loaded, k + 1, target_version, up_fails)
        ELSE IF target_version.some /\ Later(MIGRATIONS[k], target_version.v) THEN
            run_migrations(loaded, k + 1, target_version, up_fails)
        ELSE IF MIGRATIONS[k] \in up_fails THEN
            run_migrations(loaded, k + 1, target_version, up_fails)
        ELSE run_migrations(
                 [loaded EXCEPT
                     !.records = Append(@, MIGRATIONS[k]),
                     !.cache = Append(@, MIGRATIONS[k]),
                     !.ups = @ \cup {[version |-> MIGRATIONS[k],
                                      recorded |-> InList(MIGRATIONS[k], loaded.records)]}],
                 k + 1, target_version, up_fails)
        : loaded \in {applied_migrations(self)}})

\* MigrationManager.rollback_migration; down_fails says whether down raises
rollback_migration(self, version, down_fails) ==
    IF version \notin Versions THEN self
    ELSE The({
        IF ~InList(version, loaded.cache) \/ down_fails THEN loaded
        ELSE [loaded EXCEPT !.records = WithoutFirst(@, version),
                            !.cache = WithoutFirst(@, version)]
        : loaded \in {applied_migrations(self)}})

\* manager.run_migrations(target_version)
RunMigrationsCall ==
    /\ \E target_version \in {Nothing} \cup {Some(v) : v \in Versions},
          up_fails \in SUBSET Versions :
          migrations' = run_migrations(migrations, 1, target_version, up_fails)
    /\ UNCHANGED <<pipeline, limiter, storage>>
\* manager.rollback_migration(version)
RollbackMigrationCall ==
    /\ \E version \in Versions \cup {"005"}, down_fails \in BOOLEAN :
          migrations' = rollback_migration(migrations, version, down_fails)
    /\ UNCHANGED <<pipeline, limiter, storage>>
\* MigrationManager(db): a new manager on the same database
NewManagerCall ==
    /\ migrations' = [migrations EXCEPT !.cache = <<>>]
    /\ UNCHANGED <<pipeline, limiter, storage>>

NextMigrations == RunMigrationsCall \/ RollbackMigrationCall \/ NewManagerCall
SpecMigrations == Init /\ [][NextMigrations]_vars


(***************************************************************************)
(* Properties of RentRollExtractor.extract                                 *)
(***************************************************************************)
IsRentRollExtract == last.op = "extract" /\ last.kind = "rent_roll"
Tenants == last.result.data.tenants
Summary == last.result.data.summary
Errors == last.result.validation.errors

\* the value parsed from the rent column of a tenant line, when it has one
HasRent(t) == TenantKey("rent") \in DOMAIN t
RentValue(t) == Get(t, TenantKey("rent"), 0)

\* an error message mentions a word
Names(error, word) == Contains(Lower(Chars(error)), Chars(word))
Naming(errors, word) == Cardinality({k \in 1..Len(errors) : Names(errors[k], word)})

\* C4: whenever a rent-roll extraction has total_square_footage > 0, its
\* summary has occupied_square_footage <= total_square_footage and
\* 0 <= occupancy_rate <= 100.
C4_OccupancyWithinBounds ==
    (IsRentRollExtract /\ Summary.total_square_footage > 0) =>
        /\ Summary.occupied_square_footage <= Summary.total_square_footage
        /\ 0 <= Summary.occupancy_rate.num
        /\ Summary.occupancy_rate.num <= 100 * Summary.occupancy_rate.den

\* C6: extracting the sample rent roll yields total_units = 4,
\* occupied_square_footage = 4700 of 5700, occupancy_rate = 4700/5700*100,
\* and exactly the unit whose tenant is 'Vacant' (1000 square feet) is
\* marked not occupied.
IsVacantUnit(t) == Contains(Get(t, "tenant", <<>>), Chars("Vacant"))
C6_SampleRentRoll ==
    (IsRentRollExtract /\ last.content = sample_pdf_content) =>
        /\ Summary.total_units = 4
        /\ Len(Tenants) = 4
        /\ Summary.total_square_footage = Units(5700)
        /\ Summary.occupied_square_footage = Units(4700)
        /\ Summary.occupancy_rate = Ratio(Units(4700) * 100, Units(5700))
        /\ \A j \in 1..Len(Tenants) : Tenants[j].occupied <=> ~IsVacantUnit(Tenants[j])
        /\ Cardinality({j \in 1..Len(Tenants) : IsVacantUnit(Tenants[j])}) = 1
        /\ \A j \in 1..Len(Tenants) :
              IsVacantUnit(Tenants[j]) => Tenants[j].square_footage = Units(1000)
        /\ {Tenants[j].square_footage : j \in {k \in 1..Len(Tenants) : Tenants[k].occupied}}
              = {Units(1500), Units(1200), Units(2000)}
C6_SampleExtracted ==
    /\ IsRentRollExtract
    /\ last.content = sample_pdf_content
    /\ last.exc = ""
    /\ Summary.occupied_square_footage < Summary.total_square_footage

\* C7: for a well-formed rent roll (at least one tenant line, every tenant
\* with a unit, a positive square footage and a non-negative rent), extract
\* returns success = true and validation_errors is empty.
MissingUnit(t) == Get(t, "unit", <<>>) = <<>>
BadSquareFootage(t) == Get(t, "square_footage", 0) <= 0
NegativeRent(t) == RentValue(t) < 0
WellFormed(tenants) ==
    /\ Len(tenants) > 0
    /\ \A j \in 1..Len(tenants) :
          ~MissingUnit(tenants[j]) /\ ~BadSquareFootage(tenants[j]) /\ ~NegativeRent(tenants[j])
C7_WellFormedSucceeds ==
    (IsRentRollExtract /\ WellFormed(Tenants)) =>
        (last.result.success /\ Errors = <<>> /\ extractors.rent_roll.validation_errors = <<>>)

\* C8: after extract, validation_errors holds one error naming the unit
\* for each tenant with a missing unit, one naming the square footage for
\* each tenant with square_footage <= 0, one naming the rent for each
\* tenant with a negative rent, and an error when no tenant was extracted.
C8_ErrorPerOccurrence ==
    IsRentRollExtract =>
        /\ Naming(Errors, "unit")
              >= Cardinality({j \in 1..Len(Tenants) : MissingUnit(Tenants[j])})
        /\ Naming(Errors, "square")
              >= Cardinality({j \in 1..Len(Tenants) : BadSquareFootage(Tenants[j])})
        /\ Naming(Errors, "rent")
              >= Cardinality({j \in 1..Len(Tenants) : NegativeRent(Tenants[j])})
        /\ Len(Tenants) = 0 => Len(Errors) > 0

\* C9: every parsed tenant record carries the value of the rent column
\* under current_rent, and summary.total_monthly_rent is the sum of the
\* parsed rents.
C9_RentUnderCurrentRent ==
    IsRentRollExtract =>
        /\ \A j \in 1..Len(Tenants) :
              HasRent(Tenants[j]) =>
                  /\ "current_rent" \in DOMAIN Tenants[j]
                  /\ Tenants[j].current_rent = RentValue(Tenants[j])
        /\ Summary.total_monthly_rent
              = SumSeq([j \in 1..Len(Tenants) |-> RentValue(Tenants[j])])

(***************************************************************************)
(* Properties of PLStatementExtractor.extract                              *)
(***************************************************************************)
IsPLExtract == last.op = "extract" /\ last.kind = "pl_statement"
PLData == last.result.data

\* C5: in every P&L extraction, summary.noi = summary.gross_income -
\* summary.total_expenses, gross_income is the sum of the revenue item
\* amounts, total_expenses the sum of the expense item amounts, and
\* expense_ratio is total_expenses / gross_income * 100, and 0 when
\* gross_income is 0.
C5_NoiIdentity ==
    IsPLExtract =>
        /\ PLData.summary.noi = PLData.summary.gross_income - PLData.summary.total_expenses
        /\ PLData.summary.gross_income = Amounts(PLData.revenue.items)
        /\ PLData.summary.total_expenses = Amounts(PLData.expenses.items)
        /\ PLData.summary.expense_ratio =
              IF PLData.summary.gross_income = 0 THEN Zero
              ELSE Ratio(PLData.summary.total_expenses * 100, PLData.summary.gross_income)
C5_IncomeAndExpenses ==
    /\ IsPLExtract
    /\ PLData.summary.gross_income > 0
    /\ PLData.summary.total_expenses > 0
    /\ Len(PLData.revenue.items) > 1
    /\ Len(PLData.expenses.items) > 1
C5_NoIncome ==
    /\ IsPLExtract
    /\ PLData.summary.gross_income = 0
    /\ PLData.summary.total_expenses > 0
    /\ PLData.summary.expense_ratio = Zero

(***************************************************************************)
(* Properties of can_handle                                                *)
(***************************************************************************)
\* C10: for every extractor and every (text, filename), can_handle returns
\* a pair (handleable, confidence) with 0 <= confidence <= 1 and
\* handleable exactly when confidence >= 0.3.
C10_PairWithinUnitInterval ==
    last.op = "can_handle" =>
        /\ ~last.raised
        /\ last.result.shape = "tuple"
        /\ 0 <= last.result.confidence
        /\ last.result.confidence <= 1000
        /\ last.result.handle <=> last.result.confidence >= Threshold

\* C11: RentRollExtractor.can_handle answers True whenever the filename
\* contains a rent-roll keyword ('rent_roll', 'tenant', 'lease_schedule') or
\* the content contains a rent-roll table header (unit, tenant name, square
\* feet, monthly rent), and answers False when neither the filename nor the
\* content has any indicator.
IsRentRollCanHandle == last.op = "can_handle" /\ last.kind = "rent_roll"
HasRentRollKeyword(filename) ==
    \E word \in {"rent_roll", "tenant", "lease_schedule"} :
        Contains(Lower(filename), Chars(word))
HasTableHeader(content) ==
    \A column \in {"unit", "tenant name", "square feet", "monthly rent"} :
        Contains(Lower(content), Chars(column))
HasNoIndicator(content, filename) ==
    /\ \A k \in 1..Len(rent_roll_filename_indicators) :
          ~Contains(Lower(filename), Chars(rent_roll_filename_indicators[k]))
    /\ ContentConfidence(rent_roll_indicators, Lower(content)) = 0
C11_ClaimsByFilenameOrHeader ==
    IsRentRollCanHandle =>
        /\ (HasRentRollKeyword(last.filename) \/ HasTableHeader(last.content))
              => last.result.handle
        /\ HasNoIndicator(last.content, last.filename) => ~last.result.handle

(***************************************************************************)
(* Properties of BaseExtractor.validate                                    *)
(***************************************************************************)
IsValidate == last.op = "validate"
RECURSIVE IsSubsequence(_, _)
\* every entry of kept occurs in errors, in the same order
IsSubsequence(kept, errors) ==
    IF kept = <<>> THEN TRUE
    ELSE IF errors = <<>> THEN FALSE
    ELSE IF Head(kept) = Head(errors) THEN IsSubsequence(Tail(kept), Tail(errors))
    ELSE IsSubsequence(kept, Tail(errors))

\* C12: validate returns False whenever validation_errors is non-empty
\* before the call and leaves the previously recorded errors in
\* validation_errors; it returns True when no error is recorded.
C12_ValidateKeepsErrors ==
    IsValidate =>
        /\ last.before # <<>> =>
              /\ ~last.result
              /\ IsSubsequence(last.before, extractors.rent_roll.validation_errors)
        /\ last.before = <<>> => last.result

(***************************************************************************)
(* Properties of FinancialAnalysis                                         *)
(***************************************************************************)
IsAnalyzeDocument == last.op = "analyze_document"
\* C13: analyze_document never raises and returns, for every OCR result
\* (text missing, empty, without labelled figure, with arbitrary numbers,
\* comma-grouped ones included), a metrics record with non-null noi,
\* capRate, dscr, ltv and occupancyRate.
C13_AnalysisNeverRaises ==
    IsAnalyzeDocument =>
        /\ ~last.raised
        /\ {"noi", "capRate", "dscr", "ltv", "occupancyRate"} \subseteq DOMAIN last.result

\* C14: calculate_dscr, calculate_cap_rate and calculate_ltv return 0.0,
\* without a division error, whenever their denominator is 0 or absent,
\* for every numerator.
IsCalculate == last.op = "calculate"
ZeroOrAbsent(denominator) == ~denominator.some \/ denominator.v = Zero
C14_ZeroDenominatorGuard ==
    (IsCalculate /\ ZeroOrAbsent(last.content[2])) =>
        (~last.raised /\ last.result = Zero)
C14_GuardUsed ==
    /\ IsCalculate
    /\ last.kind = "calculate_dscr"
    /\ last.content[2] = Some(Zero)
    /\ last.content[1] = Some(QInt(850000))
    /\ last.result = Zero

\* C15: generate_risk_flags returns exactly one flag for each violated
\* threshold among DSCR < 1.25, occupancy < 85, LTV > 75, expense ratio
\* > 60 and cap rate < 4, none for a threshold that is not violated, and
\* five flags when all five are violated.
IsRiskFlags == last.op = "generate_risk_flags"
FlagsNaming(flags, word) ==
    Cardinality({k \in 1..Len(flags) : Contains(Chars(flags[k]), Chars(word))})
One01(violated) == IF violated THEN 1 ELSE 0
ViolatedCount(metrics) ==
    One01(QLess(metrics.dscr, Q(125, 100))) + One01(QLess(metrics.occupancyRate, QInt(85)))
    + One01(QLess(QInt(75), metrics.ltv)) + One01(QLess(QInt(60), metrics.expenseRatio))
    + One01(QLess(metrics.capRate, QInt(4)))
C15_OneFlagPerViolation ==
    IsRiskFlags =>
        /\ FlagsNaming(last.result, "DSCR") = One01(QLess(last.content.dscr, Q(125, 100)))
        /\ FlagsNaming(last.result, "Occupancy")
              = One01(QLess(last.content.occupancyRate, QInt(85)))
        /\ FlagsNaming(last.result, "LTV") = One01(QLess(QInt(75), last.content.ltv))
        /\ FlagsNaming(last.result, "Expense ratio")
              = One01(QLess(QInt(60), last.content.expenseRatio))
        /\ FlagsNaming(last.result, "Cap rate") = One01(QLess(last.content.capRate, QInt(4)))
        /\ Len(last.result) = ViolatedCount(last.content)
C15_AllFiveViolated ==
    /\ IsRiskFlags
    /\ ViolatedCount(last.content) = 5
    /\ Len(last.result) = 5

(***************************************************************************)
(* Properties of DocumentValidator                                         *)
(***************************************************************************)
IsMetricsValidation == last.op = "validate_financial_metrics"
IssuesOn(result, field, severity) ==
    {j \in 1..Len(result.issues) :
        result.issues[j].field = field /\ result.issues[j].severity = severity}
\* a critical issue on the field beyond the outer limit, only warnings on it
\* between the inner and the outer limit
GradedAs(result, field, critical, warning) ==
    /\ critical => (IssuesOn(result, field, "critical") # {} /\ ~result.is_valid)
    /\ (warning /\ ~critical) =>
          (IssuesOn(result, field, "warning") # {} /\ IssuesOn(result, field, "critical") = {})
MetricOf(key) == Get(last.content, key, Zero)
\* C16: validate_financial_metrics reports a critical issue on dscr and
\* is_valid = false when dscr < 1.0 and only a warning when 1.0 <= dscr <
\* 1.25; LTV > 80 is critical and 75 < LTV <= 80 a warning; occupancy < 70
\* is critical and 70 <= occupancy < 85 a warning; is_valid is true exactly
\* when the result has no critical issue.
C16_GradedIssues ==
    IsMetricsValidation =>
        /\ GradedAs(last.result, "dscr", QLess(MetricOf("dscr"), QInt(1)),
                    QLess(MetricOf("dscr"), Q(125, 100)))
        /\ GradedAs(last.result, "ltv", QLess(QInt(80), MetricOf("ltv")),
                    QLess(QInt(75), MetricOf("ltv")))
        /\ GradedAs(last.result, "occupancyRate", QLess(MetricOf("occupancyRate"), QInt(70)),
                    QLess(MetricOf("occupancyRate"), QInt(85)))
        /\ last.result.is_valid <=> (Severities(last.result.issues, "critical") = 0)
C16_WarningAndCritical ==
    /\ IsMetricsValidation
    /\ MetricOf("dscr") = Q(12, 10)
    /\ MetricOf("ltv") = Q(801, 10)
    /\ MetricOf("occupancyRate") = Q(845, 10)
    /\ IssuesOn(last.result, "dscr", "warning") # {}
    /\ IssuesOn(last.result, "ltv", "critical") # {}
    /\ ~last.result.is_valid

\* C17: every ValidationResult returned by validate_rent_roll,
\* validate_pl_statement and validate_financial_metrics has confidence_score
\* = max(0, 1.0 - 0.1 * criticals - 0.05 * warnings - 0.01 * infos), counted
\* over the issues of that result.
IsScoredValidation ==
    last.op \in {"validate_rent_roll", "validate_pl_statement", "validate_financial_metrics"}
C17_ConfidenceFromIssues ==
    IsScoredValidation => last.result.confidence_score = Max(0, Penalised(last.result.issues))

\* C18: validate_cross_field_consistency records an occupancy-mismatch
\* issue whenever the rent-roll-derived and the metrics-derived occupancy
\* rates differ by more than 10 percentage points, and none when they
\* differ by 10 or less.
IsCrossField == last.op = "validate_cross_field_consistency"
RentRollOccupancy ==
    Norm(Get(Get(last.content.rent_roll_data, "summary", EmptyDict), "occupancy_rate", Zero))
C18_MismatchBeyondTenPoints ==
    IsCrossField =>
        ((IssuesOn(last.result, "occupancyRate", "warning") # {})
            <=> QLess(QInt(10), AbsDiff(RentRollOccupancy,
                                        last.content.financial_metrics.occupancyRate)))

(***************************************************************************)
(* Properties of upload_document                                           *)
(***************************************************************************)
IsUpload == last.op = "upload_document"
\* the records the upload left in the documents collection
StoredRecords == IF "documents" \in DOMAIN last.result THEN last.result.documents ELSE <<>>
IsAcceptedUpload ==
    /\ IsUpload
    /\ ~last.content.large
    /\ Extension(last.content.name) \in SupportedExtensions
\* C19: the record stored for an uploaded document gets status 'completed'
\* only when extraction produced at least one successful extraction result,
\* and status 'error' otherwise.
C19_CompletedOnlyWithExtraction ==
    IsAcceptedUpload =>
        /\ Len(StoredRecords) = 1
        /\ \A k \in 1..Len(StoredRecords) :
              StoredRecords[k].status
                  = IF Len(Get(StoredRecords[k].processing_result, "extractions", <<>>)) >= 1
                    THEN "completed" ELSE "error"

(***************************************************************************)
(* Properties of extract across the extractor classes                      *)
(***************************************************************************)
\* C1: for every extractor class and every text, extract does not raise to
\* the caller, and when a step of it failed the result has success = false
\* and a validation error describing the failure.
C1_ExtractNeverRaises ==
    last.op = "extract" =>
        /\ ~last.raised
        /\ last.exc # "" =>
              /\ ~last.result.success
              /\ \E k \in 1..Len(last.result.validation.errors) :
                    last.result.validation.errors[k] = "Extraction error: " \o last.exc

(***************************************************************************)
(* Properties of DocumentProcessor.process_document                        *)
(***************************************************************************)
\* the second of two extract calls on the same instance with the same text,
\* the transient state having been reset in between
SecondCall ==
    /\ last.op = "reset"
    /\ last'.op = "extract"
    /\ last'.kind = last.kind
    /\ last'.content = last.content
\* C20: for every extractor variant and every text, extract returns a
\* result, and calling it again on the same instance with the same text,
\* the transient state (extracted_data, confidence_scores,
\* validation_errors) reset between the calls, yields the same data.
C20_SameDataAfterReset ==
    [][last'.op = "extract" =>
          /\ ~last'.raised
          /\ SecondCall => last'.result.data = last.result.data]_vars

IsProcessDocument == last.op = "process_document"
File == last.content
\* a document: an existing file of a supported type with text in it
IsDocument(file) ==
    /\ file.exists
    /\ Extension(file.name) \in SupportedExtensions
    /\ file.text # None /\ file.text # <<>>
\* can_handle reached the confidence threshold
Clears(ret) == IF ret.shape = "tuple" THEN ret.confidence >= Threshold ELSE ret.handle
\* the registered classes from the k-th on whose can_handle clears the threshold
RECURSIVE ClearingFrom(_, _)
ClearingFrom(k, file) ==
    IF k > Len(extractor_classes) THEN <<>>
    ELSE IF Clears(CanHandleOf(extractor_classes[k], file.text, file.name))
    THEN <<extractor_classes[k]>> \o ClearingFrom(k + 1, file)
    ELSE ClearingFrom(k + 1, file)

\* C2: for every document, the extractions list process_document returns
\* holds, in registration order, exactly one entry for each registered
\* extractor whose can_handle cleared the 0.3 threshold, and none for an
\* extractor below it.
C2_OneEntryPerClearingExtractor ==
    (IsProcessDocument /\ IsDocument(File)) =>
        /\ ~last.raised
        /\ [k \in 1..Len(last.result.extractions) |-> last.result.extractions[k].extractor]
              = ClearingFrom(1, File)

\* C3: for every document, process_document returns status 'success',
\* whatever the extractors it ran returned.
C3_AlwaysSuccessStatus ==
    (IsProcessDocument /\ IsDocument(File)) =>
        /\ ~last.raised
        /\ last.result.status = "success"

(***************************************************************************)
(* Properties of a DocumentProcessor over several documents                *)
(***************************************************************************)
IsProcessSequence == last.op = "process_documents"
\* an instance with the transient state __init__ gives it
IsFresh(self) ==
    /\ self.extracted_data = EmptyDict
    /\ self.confidence_scores = {}
    /\ self.validation_errors = <<>>
    /\ self.market_data = EmptyDict
\* C21: across any sequence of documents processed by one
\* DocumentProcessor, every document is handled, and extract is never
\* entered on an instance that still holds transient state (extracted_data,
\* confidence_scores, validation_errors, market_data) of an earlier document.
C21_FreshInstancePerDocument ==
    IsProcessSequence =>
        /\ ~last.raised
        /\ \A d \in 1..Len(last.result) : \A k \in 1..Len(last.result[d].entered) :
              IsFresh(last.result[d].entered[k])

(***************************************************************************)
(* Properties of the estimates of FinancialAnalysis.analyze_document       *)
(***************************************************************************)
IsAnalysisOfText == IsAnalyzeDocument /\ "text" \in DOMAIN last.content
\* the largest number in the text, 0 when the text holds none
LargestNumber(text) ==
    The({IF numbers = <<>> THEN Zero ELSE MaxQ(numbers) :
         numbers \in {extract_numbers(text).numbers}})
\* the figure found under a label, else the estimate, else 0
ExpectedNoi(text) ==
    IF IsTrue(find_noi(text)) THEN find_noi(text).v
    ELSE IF QLess(QInt(100000), LargestNumber(text))
    THEN QDiv(LargestNumber(text), QInt(12)) ELSE Zero
ExpectedPropertyValue(text) ==
    IF find_property_value(text).some THEN find_property_value(text).v
    ELSE IF QLess(QInt(100000), LargestNumber(text))
    THEN QMul(LargestNumber(text), QInt(2)) ELSE Zero
ExpectedLoanAmount(text) ==
    IF find_loan_amount(text).some THEN find_loan_amount(text).v
    ELSE QMul(ExpectedPropertyValue(text), Q(7, 10))
ExpectedDebtService(text) ==
    IF find_debt_service(text).some THEN find_debt_service(text).v
    ELSE QMul(ExpectedLoanAmount(text), Q(8, 100))
\* C22: analyze_document reports each of NOI, property value, loan amount
\* and debt service as the non-zero figure found under its label, else as
\* its estimate (NOI = largest number / 12 and property value = largest
\* number * 2 when that number exceeds 100,000, loan amount = property
\* value * 0.7, debt service = loan amount * 0.08), else as 0.
C22_FoundElseEstimated ==
    IsAnalysisOfText =>
        /\ ~last.raised
        /\ last.result.noi = ExpectedNoi(last.content.text)
        /\ last.result.propertyValue = ExpectedPropertyValue(last.content.text)
        /\ last.result.loanAmount = ExpectedLoanAmount(last.content.text)
        /\ last.result.debtService = ExpectedDebtService(last.content.text)

(***************************************************************************)
(* Properties of BaseExtractor.calculate_field_confidence                  *)
(***************************************************************************)
IsFieldConfidence == last.op = "calculate_field_confidence"
\* 0.3 * base + 0.2 * format + 0.2 * range of the call
ScoredWithoutMarket ==
    QAdd(QAdd(QMul(calculate_base_confidence(last.kind, last.content.value), Q(3, 10)),
              QMul(calculate_format_confidence(rent_roll_format_rules, last.kind,
                                               last.content.value), Q(2, 10))),
         QMul(calculate_range_confidence(last.kind, last.content.value,
                                         last.content.expected_range), Q(2, 10)))
MarketScore ==
    calculate_market_alignment([market_data |-> last.content.market_data], last.kind,
                               last.content.value)
\* C23: calculate_field_confidence returns 0 for a None value and otherwise
\* a value in [0, 1] equal to 0.3 * base + 0.2 * format + 0.2 * range + 0.3 *
\* market when market data is available, and to the combination of base,
\* format and range renormalised over their weights (market excluded) when
\* no market data is available.
C23_WeightedOrRenormalised ==
    IsFieldConfidence =>
        IF last.content.value.kind = "none" THEN last.result = Zero
        ELSE /\ ~QLess(last.result, Zero) /\ ~QLess(One1, last.result)
             /\ last.result =
                    IF last.content.market_data # EmptyDict
                    THEN Round3(QAdd(ScoredWithoutMarket, QMul(MarketScore, Q(3, 10))))
                    ELSE Round3(QDiv(ScoredWithoutMarket, Q(7, 10)))

(***************************************************************************)
(* Properties of OperatingStatementExtractor.extract                       *)
(***************************************************************************)
\* what the two composed extractors, freshly constructed, give on a text
RentRollPart(content) == RentRollExtract(NewExtractor, content).result.data
PLPart(content) == PLExtract(NewExtractor, content).result.data

\* C24: OperatingStatementExtractor.extract returns a result that merges the
\* two extractors' outputs on the same text: with parseable P&L items
\* financial_data is the P&L data and metrics.noi, metrics.expense_ratio are
\* the P&L summary's; with parseable tenant lines occupancy_data is the
\* rent-roll summary and metrics.occupancy_rate, metrics.avg_rent_psf are
\* its values; a successful result has financial data.
C24_MergesBothExtractors ==
    (last.op = "extract" /\ last.kind = "operating_statement") =>
        /\ ~last.raised
        /\ \A pl \in {PLPart(last.content)} :
              (pl.revenue.items # <<>> \/ pl.expenses.items # <<>>) =>
                  /\ last.result.data.financial_data = pl
                  /\ last.result.data.metrics.noi = pl.summary.noi
                  /\ last.result.data.metrics.expense_ratio = pl.summary.expense_ratio
        /\ \A rr \in {RentRollPart(last.content)} :
              rr.tenants # <<>> =>
                  /\ last.result.data.occupancy_data = rr.summary
                  /\ last.result.data.metrics.occupancy_rate = rr.summary.occupancy_rate
                  /\ last.result.data.metrics.avg_rent_psf = rr.summary.average_rent_psf
        /\ last.result.success => last.result.data.financial_data # None

(***************************************************************************)
(* Properties of PLStatementExtractor._extract_revenue_items               *)
(***************************************************************************)
\* the lines of the revenue section of the text extracted
RevenueLines ==
    The({IF section = None THEN <<>> ELSE Split(section, "\n")
         : section \in {extract_section(last.content,
                                        <<Lit("revenue"), Lit("income"), Lit("receipts")>>,
                                        <<Lit("expenses"), Lit("costs"), Lit("deductions")>>)}})
\* a non-blank line that carries an amount and names a revenue category
IsRevenueLine(line) ==
    /\ Strip(line) # <<>>
    /\ extract_amount(line).some
    /\ \E k \in 1..Len(revenue_categories) : Search(revenue_categories[k][1], Lower(line)).ok
RevenueLineAmounts ==
    SumSeq([k \in 1..Len(RevenueLines) |->
               IF IsRevenueLine(RevenueLines[k]) THEN extract_amount(RevenueLines[k]).v ELSE 0])

\* C25: every non-blank line of the revenue section that carries an amount
\* and describes a revenue line item gives one revenue item with that
\* amount under the matching category, so gross_income covers the amounts
\* of all these lines.
C25_EveryRevenueLineCounted ==
    IsPLExtract =>
        /\ \A k \in 1..Len(RevenueLines) :
              IsRevenueLine(RevenueLines[k]) =>
                  \E j \in 1..Len(PLData.revenue.items) :
                      /\ PLData.revenue.items[j].amount = extract_amount(RevenueLines[k]).v
                      /\ PLData.revenue.items[j].category
                            = categorize_item(RevenueLines[k], revenue_categories)
        /\ PLData.summary.gross_income >= RevenueLineAmounts

(***************************************************************************)
(* Occupancy limits of DocumentValidator                                   *)
(***************************************************************************)
\* C26: an occupancy rate outside [0, 100] is critical in both validators:
\* validate_financial_metrics with such an occupancyRate, like
\* validate_rent_roll with such a summary occupancy_rate, reports a critical
\* issue on the field and is_valid = false.
OutsidePercent(rate) == QLess(rate, Zero) \/ QLess(QInt(100), rate)
C26_OccupancyOutOfRangeCritical ==
    /\ (IsMetricsValidation /\ OutsidePercent(MetricOf("occupancyRate"))) =>
          /\ IssuesOn(last.result, "occupancyRate", "critical") # {}
          /\ ~last.result.is_valid
    /\ (last.op = "validate_rent_roll" /\ Len(Get(last.content, "tenants", <<>>)) > 0
        /\ OutsidePercent(Norm(Get(Get(last.content, "summary", EmptyDict),
                                   "occupancy_rate", Zero)))) =>
          /\ IssuesOn(last.result, "occupancy_rate", "critical") # {}
          /\ ~last.result.is_valid

(***************************************************************************)
(* Properties of the metrics pipeline analyze_document, generate_risk_flags*)
(***************************************************************************)
IsFlaggedAnalysis == IsRiskFlags /\ last.kind = "analysis"
\* C27: for the metrics analyze_document produced, with a property value
\* that is not 0, generate_risk_flags emits the 'Cap rate below 4%' flag
\* exactly when NOI divided by property value is below 4 percent.
C27_CapRateInOneUnit ==
    (IsFlaggedAnalysis /\ last.content.propertyValue.num # 0) =>
        (FlagsNaming(last.result, "Cap rate")
            = One01(QLess(QMul(QDiv(last.content.noi, last.content.propertyValue), QInt(100)),
                          QInt(4))))

(***************************************************************************)
(* Properties of RateLimitMiddleware.check_rate_limit                      *)
(***************************************************************************)
\* the requests of a client allowed with a timestamp in (t - seconds, t]
AllowedInWindow(c, t) ==
    {k \in 1..Len(limiter.allowed) :
        /\ limiter.allowed[k].client = c
        /\ limiter.allowed[k].now > t - seconds
        /\ limiter.allowed[k].now <= t}
\* how often a timestamp occurs among the allowed requests of a client, and
\* in the client's list
TimesAllowed(c, now) ==
    Cardinality({k \in 1..Len(limiter.allowed) :
                    limiter.allowed[k].client = c /\ limiter.allowed[k].now = now})
TimesStored(c, now) ==
    Cardinality({k \in 1..Len(limiter.store[c]) : limiter.store[c][k] = now})
\* C28: under every interleaving of check_rate_limit calls, no client has
\* more than the limit of allowed requests with a timestamp in any window
\* (t - seconds, t], and a client's list only records that client's allowed
\* requests.
C28_WindowNeverExceedsLimit ==
    /\ \A c \in Clients : \A t \in 0..MaxClock :
          Cardinality(AllowedInWindow(c, t)) <= requests
    /\ \A c \in Clients : \A now \in 0..MaxClock :
          TimesStored(c, now) <= TimesAllowed(c, now)

(***************************************************************************)
(* Properties of upload_document with cleanup_orphaned_files               *)
(***************************************************************************)
\* the files the orphan cleanup has unlinked
RemovedNames == {r.filename : r \in storage.removed}
\* C29: in no interleaving of upload_document with cleanup_orphaned_files is
\* there a stored record whose file the orphan cleanup deleted, and a file
\* is unlinked as orphaned only when no record refers to it and no upload
\* that wrote it is in progress.
C29_NoRecordOfOrphanedFile ==
    /\ \A k \in 1..Len(storage.records) :
          ~(storage.records[k].filename \in RemovedNames
            /\ storage.records[k].filename \notin storage.files)
    /\ \A r \in storage.removed : ~r.referred /\ ~r.uploading

(***************************************************************************)
(* Properties of MigrationManager                                          *)
(***************************************************************************)
IsRecorded(version) == InList(version, migrations.records)
\* C30: after any sequence of run_migrations and rollback_migration calls,
\* with failing migrations, the versions recorded as applied are a prefix of
\* MIGRATIONS, and run_migrations has applied no migration that was recorded
\* as applied.
C30_AppliedIsPrefix ==
    /\ \A j \in 1..Len(MIGRATIONS) : \A i \in 1..(j - 1) :
          IsRecorded(MIGRATIONS[j]) => IsRecorded(MIGRATIONS[i])
    /\ \A up \in migrations.ups : ~up.recorded

====
